---- MODULE Spec2Model ----
(***************************************************************************)
(* pullke: the TTL file cache (cache/index.ts), the cache-or-fetch         *)
(* orchestrator and the repository / pull-request search built on it.      *)
(*                                                                         *)
(* Strings are sequences of one-character strings, so that sanitizing,     *)
(* prefix tests, splitting, trimming and sorting are computed as the code  *)
(* computes them.  Times are milliseconds, TTLs are seconds.               *)
(***************************************************************************)
EXTENDS Integers, Sequences, FiniteSets, TLC

VARIABLES
    now,          \* Date.now(), in milliseconds
    cacheConfig,  \* the module-level cacheConfig of cache/index.ts
    files,        \* the cache directory: file name -> file content
    calls,        \* the getFromCacheOrFetch calls in flight, per caller
    ret,          \* what the last direct cache operation returned
    rq,           \* the searchRepositories / searchPullRequests request
    cachedToken,  \* the module-level cachedToken of auth/index.ts
    execSyncCalls \* how often the credential CLI (gh auth token) was run

vars == <<now, cacheConfig, files, calls, ret, rq, cachedToken, execSyncCalls>>

------------------------------------------------------------------------------
(* Bounds of the model *)

MaxTime == 1500        \* the clock stops advancing here (milliseconds)
BackendFullPages == 2  \* pages of a scope the backend can fill completely
MaxCliRuns == 6        \* runs of the credential CLI that are followed

------------------------------------------------------------------------------
(* Strings *)

Lower == <<"a", "b", "c", "d", "e", "f", "g", "h", "i", "j", "k", "l", "m",
           "n", "o", "p", "q", "r", "s", "t", "u", "v", "w", "x", "y", "z">>

Upper == <<"A", "B", "C", "D", "E", "F", "G", "H", "I", "J", "K", "L", "M",
           "N", "O", "P", "Q", "R", "S", "T", "U", "V", "W", "X", "Y", "Z">>

Digits == <<"0", "1", "2", "3", "4", "5", "6", "7", "8", "9">>

Range(seq) == {seq[i] : i \in 1..Len(seq)}

IndexOf(seq, c) == CHOOSE i \in 1..Len(seq) : seq[i] = c

\* The UTF-16 code unit of a character (String comparison in
\* Array.prototype.sort() without a comparator is by code unit).
CharCode(c) ==
    IF c \in Range(Lower) THEN 96 + IndexOf(Lower, c)
    ELSE IF c \in Range(Upper) THEN 64 + IndexOf(Upper, c)
    ELSE IF c \in Range(Digits) THEN 47 + IndexOf(Digits, c)
    ELSE CASE c = " " -> 32 [] c = "(" -> 40 [] c = ")" -> 41
           [] c = "," -> 44 [] c = "-" -> 45 [] c = "." -> 46
           [] c = "/" -> 47 [] c = ":" -> 58 [] c = "@" -> 64
           [] c = "_" -> 95 [] c = "|" -> 124

\* the character class [a-zA-Z0-9-_]
SafeChars == Range(Lower) \cup Range(Upper) \cup Range(Digits) \cup {"-", "_"}

IsSafeChar(c) == c \in SafeChars

\* a < b as Array.prototype.sort() compares strings: by code unit, a proper
\* prefix first
RECURSIVE StrLess(_, _)
StrLess(a, b) ==
    IF b = <<>> THEN FALSE
    ELSE IF a = <<>> THEN TRUE
    ELSE IF Head(a) = Head(b) THEN StrLess(Tail(a), Tail(b))
    ELSE CharCode(Head(a)) < CharCode(Head(b))

\* strings.sort(): ascending, by insertion
RECURSIVE InsertSorted(_, _)
InsertSorted(sorted, x) ==
    IF sorted = <<>> THEN <<x>>
    ELSE IF StrLess(x, Head(sorted)) THEN <<x>> \o sorted
    ELSE <<Head(sorted)>> \o InsertSorted(Tail(sorted), x)

RECURSIVE SortStrings(_)
SortStrings(strings) ==
    IF strings = <<>> THEN <<>>
    ELSE InsertSorted(SortStrings(SubSeq(strings, 1, Len(strings) - 1)),
                      strings[Len(strings)])

\* strings.join(sep)
RECURSIVE Join(_, _)
Join(strings, sep) ==
    IF strings = <<>> THEN <<>>
    ELSE IF Len(strings) = 1 THEN strings[1]
    ELSE strings[1] \o sep \o Join(Tail(strings), sep)

\* s.split(','): the pieces between the commas, empty pieces included
RECURSIVE Split(_, _)
Split(s, sep) ==
    IF \A i \in 1..Len(s) : s[i] # sep THEN <<s>>
    ELSE LET i == CHOOSE j \in 1..Len(s) :
                    s[j] = sep /\ \A k \in 1..(j - 1) : s[k] # sep
         IN  <<SubSeq(s, 1, i - 1)>> \o Split(SubSeq(s, i + 1, Len(s)), sep)

\* s.trim()
RECURSIVE Trim(_)
Trim(s) ==
    IF s = <<>> THEN s
    ELSE IF Head(s) = " " THEN Trim(Tail(s))
    ELSE IF s[Len(s)] = " " THEN Trim(SubSeq(s, 1, Len(s) - 1))
    ELSE s

\* strings.filter(Boolean): the empty string is falsy
RECURSIVE FilterNonEmpty(_)
FilterNonEmpty(strings) ==
    IF strings = <<>> THEN <<>>
    ELSE (IF Head(strings) = <<>> THEN <<>> ELSE <<Head(strings)>>)
            \o FilterNonEmpty(Tail(strings))

\* String.prototype.startsWith
StartsWith(s, prefix) ==
    /\ Len(s) >= Len(prefix)
    /\ SubSeq(s, 1, Len(prefix)) = prefix

------------------------------------------------------------------------------
(* Cache store: key -> file *)

\* the divisor of line 66, milliseconds per second
MsPerSecond == 1000

\* the clock advances in half seconds
TickMs == MsPerSecond \div 2

DEFAULT_REPO_TTL == 7 * 24 * 60 * 60
DEFAULT_PR_TTL == 24 * 60 * 60

\* key.replace(/[^a-zA-Z0-9-_]/g, '_')
sanitizeCacheKey(key) ==
    [i \in 1..Len(key) |-> IF IsSafeChar(key[i]) THEN key[i] ELSE "_"]

\* path.join(cacheDir, `${sanitizedKey}.json`): the file name inside the one
\* cache directory
getCacheFilePath(key) == sanitizeCacheKey(key) \o <<".json">>

\* A file holds either a serialized CacheEntry or text JSON.parse rejects.
Corrupt == [corrupt |-> TRUE]

\* a file that fs.readFile fails on (EACCES, EIO)
Unreadable == [unreadable |-> TRUE]

CacheEntry(data, timestamp, ttl) ==
    [data |-> data, timestamp |-> timestamp, ttl |-> ttl]

\* fs.readFile + JSON.parse succeed
Parses(path) == path \in DOMAIN files /\ files[path] \notin {Corrupt, Unreadable}

\* an off-by-one expiry test: an entry whose age equals its ttl is still served
AgeBelowTtl_Inclusive(entry, t) ==
    t - entry.timestamp <= entry.ttl * MsPerSecond

\* isCacheValid: age = (Date.now() - timestamp) / 1000; return age < ttl.
\* (t - timestamp) / 1000 < ttl over the reals is t - timestamp < ttl * 1000.
AgeBelowTtl(entry, t) == t - entry.timestamp < entry.ttl * MsPerSecond

isCacheValid(key, t) ==
    /\ Parses(getCacheFilePath(key))
    /\ AgeBelowTtl(files[getCacheFilePath(key)], t)

\* null, the "absent" result of getCache, and a non-null value
Null == [null |-> TRUE]

Some(data) == [null |-> FALSE, data |-> data]

getCache(key, t) ==
    IF ~isCacheValid(key, t) THEN Null
    ELSE Some(files[getCacheFilePath(key)].data)

getDefaultTtlForKey_AlwaysRepo(key) == cacheConfig.repoTtl

getDefaultTtlForKey(key) ==
    IF StartsWith(key, <<"r", "e", "p", "o", "s", "_">>) THEN cacheConfig.repoTtl
    ELSE IF StartsWith(key, <<"p", "r", "s", "_">>) THEN cacheConfig.prTtl
    ELSE cacheConfig.repoTtl

\* value || fallback for a number, with undefined modelled as 0 (both are
\* falsy)
OrElse(value, fallback) == IF value = 0 THEN fallback ELSE value


\* The directory after fs.writeFile(path, content) / fs.unlink(path)
\* a write that keeps the timestamp of the entry it replaces
WriteFile_KeepsTimestamp(path, content) ==
    [p \in DOMAIN files \cup {path} |->
        IF p # path THEN files[p]
        ELSE IF path \in DOMAIN files /\ files[path] \notin {Corrupt, Unreadable}
                /\ content \notin {Corrupt, Unreadable}
        THEN [content EXCEPT !.timestamp = files[path].timestamp]
        ELSE content]

WriteFile(path, content) ==
    [p \in DOMAIN files \cup {path} |-> IF p = path THEN content ELSE files[p]]

Unlink(paths) == [p \in DOMAIN files \ paths |-> files[p]]

\* What a failing fs.writeFile may leave behind: the file untouched, or
\* truncated / partly written text that JSON.parse rejects.
FailedWrites(path) == {files, WriteFile(path, Corrupt)}

------------------------------------------------------------------------------
(* Cache key derivation *)

\* keywords.split(',').map(k => k.trim()).filter(Boolean)
RECURSIVE TrimAll(_)
TrimAll(strings) ==
    IF strings = <<>> THEN <<>>
    ELSE <<Trim(Head(strings))>> \o TrimAll(Tail(strings))

KeywordList_NoTrim(keywords) == FilterNonEmpty(Split(keywords, ","))

KeywordList(keywords) == FilterNonEmpty(TrimAll(Split(keywords, ",")))

\* Values of an optional argument or of an options object
Undefined == [t |-> "undefined"]
Str(chars) == [t |-> "string", v |-> chars]
Arr(strings) == [t |-> "array", v |-> strings]
Num(n) == [t |-> "number", v |-> n]
NullValue == [t |-> "null"]

\* JavaScript truthiness of an option value
Truthy(value) ==
    CASE value.t = "undefined" -> FALSE
      [] value.t = "null" -> FALSE
      [] value.t = "string" -> value.v # <<>>
      [] value.t = "number" -> value.v # 0
      [] value.t = "array" -> TRUE

\* generateRepoSearchCacheKey(organizations, keywords?, includeCurrentUser?);
\* keywords is Undefined (omitted or undefined) or a string.
\* organizations.sort() also sorts the caller's array in place: see
\* SearchRepositories.
generateRepoSearchCacheKey(organizations, keywords, includeCurrentUser) ==
    LET orgsKey == Join(SortStrings(organizations), <<",">>)
        keywordsKey == IF Truthy(keywords)
                       THEN Join(SortStrings(KeywordList(keywords.v)), <<",">>)
                       ELSE <<>>
        userKey == IF includeCurrentUser THEN <<"u", "s", "e", "r">> ELSE <<>>
    IN  <<"r", "e", "p", "o", "s", "_">> \o orgsKey \o <<"_">> \o keywordsKey \o <<"_">> \o userKey

\* The rendering of a value in a template literal
RECURSIVE NatToString(_)
NatToString(n) ==
    IF n < 10 THEN <<Digits[n + 1]>>
    ELSE NatToString(n \div 10) \o <<Digits[(n % 10) + 1]>>

\* `${value}`
TemplateString(value) ==
    CASE value.t = "undefined" -> <<"u", "n", "d", "e", "f", "i", "n", "e", "d">>
      [] value.t = "string" -> value.v
      [] value.t = "array" -> Join(value.v, <<",">>)
      [] value.t = "number" -> NatToString(value.v)

\* An options object is the sequence of its <<name, value>> properties in
\* insertion order.
ObjectKeys(options) == [i \in 1..Len(options) |-> options[i][1]]

Lookup(options, name) ==
    options[CHOOSE i \in 1..Len(options) : options[i][1] = name][2]

generatePRSearchCacheKey_Unsorted(owner, repo, options) ==
    LET keys == ObjectKeys(options)
        rendered == [i \in 1..Len(keys) |->
                        keys[i] \o <<":">> \o TemplateString(Lookup(options, keys[i]))]
    IN  <<"p", "r", "s", "_">> \o owner \o <<"_">> \o repo \o <<"_">> \o Join(rendered, <<"|">>)

\* generatePRSearchCacheKey
generatePRSearchCacheKey(owner, repo, options) ==
    LET keys == SortStrings(ObjectKeys(options))
        rendered == [i \in 1..Len(keys) |->
                        keys[i] \o <<":">> \o TemplateString(Lookup(options, keys[i]))]
    IN  <<"p", "r", "s", "_">> \o owner \o <<"_">> \o repo \o <<"_">> \o Join(rendered, <<"|">>)

------------------------------------------------------------------------------
(* Inputs of the cache specification *)

KeyRepos == <<"r", "e", "p", "o", "s", "_", "a">>
KeyPrs == <<"p", "r", "s", "_", "a">>
KeyOther == <<"x", ":", "y">>
\* a key that sanitizeCacheKey maps to the file name of KeyOther
KeyCollide == <<"x", "_", "y">>

Keys == {KeyRepos, KeyPrs, KeyOther, KeyCollide}

Callers == {1, 2}

\* values a fetch function resolves to (never null: null is getCache's
\* "absent" and cannot be told from a miss)
DataValues == {"d1", "d2"}

\* TTL overrides in seconds; 0 stands for "no override" (undefined)
\* the customTtl argument: omitted, 0 or 1 second
TtlValues == {Undefined, Num(0), Num(1)}

\* customTtl || fallback
TtlOrElse(customTtl, fallback) ==
    IF Truthy(customTtl) THEN customTtl.v ELSE fallback

------------------------------------------------------------------------------
(* getFromCacheOrFetch, one step per await *)

IdleCall ==
    [pc |-> "idle", key |-> <<>>, customTtl |-> Undefined, fetchFn |-> "none",
     fetchCalls |-> 0, freshData |-> Null, ttlToUse |-> 0, entry |-> Null,
     result |-> Null, thrown |-> Null]

\* thrown values: what fetchFn rejects with, and the I/O errors of setCache
FetchError == [from |-> "fetchFn", isError |-> TRUE, message |-> "fetch failed"]
MkdirError == [from |-> "mkdir", isError |-> TRUE, message |-> "EACCES"]
WriteError == [from |-> "writeFile", isError |-> TRUE, message |-> "ENOSPC"]

\* return { data, cached }: lines 149, 161, 166 (the locals are dead)
GcfReturn(call, data, cached) ==
    [IdleCall EXCEPT !.pc = "done", !.key = call.key,
                     !.fetchCalls = call.fetchCalls,
                     !.result = [data |-> data, cached |-> cached]]

\* a lookup that ignores the cached value and always fetches
GcfBegin_AlwaysFetch(c, key, customTtl, fetchFn) ==
    calls' = [calls EXCEPT ![c] =
        [IdleCall EXCEPT !.key = key, !.customTtl = customTtl,
                         !.fetchFn = fetchFn, !.pc = "fetch",
                         !.fetchCalls = 1]]

\* lines 144-154: getCache; a hit returns, a miss invokes fetchFn
GcfBegin(c, key, customTtl, fetchFn) ==
    LET cachedData == getCache(key, now)
        call == [IdleCall EXCEPT !.key = key, !.customTtl = customTtl,
                                 !.fetchFn = fetchFn]
    IN  calls' = [calls EXCEPT ![c] =
            IF cachedData # Null
            THEN GcfReturn(call, cachedData.data, TRUE)
            ELSE [call EXCEPT !.pc = "fetch", !.fetchCalls = 1]]

\* a catch block that starts the call over, write included
GcfCatch_StartsOver(call, error) ==
    [IdleCall EXCEPT !.pc = "fetch", !.key = call.key,
                     !.customTtl = call.customTtl,
                     !.fetchFn = call.fetchFn,
                     !.fetchCalls = call.fetchCalls + 1]

\* lines 162-165: the catch block takes whatever the try block threw, from
\* fetchFn or from setCache, logs it and invokes fetchFn again (the locals of
\* the try block are dead)
GcfCatch(call, error) ==
    [IdleCall EXCEPT !.pc = "refetch", !.key = call.key,
                     !.fetchFn = call.fetchFn,
                     !.fetchCalls = call.fetchCalls + 1]

\* fetchFn resolved: lines 154-158 (setCache is entered and awaits mkdir),
\* or lines 165-166 when it was the catch block's fetch
GcfFetchResolved(c, data) ==
    LET call == calls[c]
    IN  calls' = [calls EXCEPT ![c] =
            IF call.pc = "fetch"
            THEN [call EXCEPT !.pc = "mkdir", !.freshData = Some(data),
                              !.ttlToUse = TtlOrElse(call.customTtl,
                                              getDefaultTtlForKey(call.key))]
            ELSE GcfReturn(call, data, FALSE)]

\* fetchFn rejected: caught at line 162 the first time, propagated to the
\* caller from line 165
GcfFetchRejected(c, error) ==
    LET call == calls[c]
    IN  calls' = [calls EXCEPT ![c] =
            IF call.pc = "fetch"
            THEN GcfCatch(call, error)
            ELSE [IdleCall EXCEPT !.pc = "failed", !.key = call.key,
                                  !.fetchCalls = call.fetchCalls,
                                  !.thrown = Some(error)]]

\* setCache lines 82-91: ensureCacheDir returned; the entry is built with
\* the current time and fs.writeFile is issued.  A failed mkdir is thrown
\* out of setCache into the catch block of getFromCacheOrFetch.
GcfSetCacheMkdir(c, ok) ==
    LET call == calls[c]
    IN  /\ call.pc = "mkdir"
        /\ calls' = [calls EXCEPT ![c] =
                IF ok
                THEN [call EXCEPT !.pc = "write",
                         !.entry = CacheEntry(call.freshData.data, now,
                             OrElse(call.ttlToUse, getDefaultTtlForKey(call.key)))]
                ELSE GcfCatch(call, MkdirError)]
        /\ UNCHANGED files

\* a write that leaves an entry that is already there alone
GcfSetCacheWrite_KeepsExisting(c, ok) ==
    LET call == calls[c]
        path == getCacheFilePath(call.key)
    IN  /\ call.pc = "write"
        /\ files' = IF path \in DOMAIN files THEN files
                     ELSE WriteFile(path, call.entry)
        /\ calls' = [calls EXCEPT ![c] =
                        GcfReturn(call, call.freshData.data, FALSE)]

\* setCache lines 91-95 and getFromCacheOrFetch lines 159-161: fs.writeFile
\* returned
GcfSetCacheWrite(c, ok) ==
    LET call == calls[c]
    IN  /\ call.pc = "write"
        /\ IF ok
           THEN /\ files' = WriteFile(getCacheFilePath(call.key), call.entry)
                /\ calls' = [calls EXCEPT ![c] =
                        GcfReturn(call, call.freshData.data, FALSE)]
           ELSE /\ files' \in FailedWrites(getCacheFilePath(call.key))
                /\ calls' = [calls EXCEPT ![c] = GcfCatch(call, WriteError)]

------------------------------------------------------------------------------
(* The cache specification: two callers of getFromCacheOrFetch with fetch   *)
(* functions the environment resolves, the direct cache operations, and the *)
(* clock.                                                                    *)

NoRet == [op |-> "none"]

\* no search request has been made
IdleRq ==
    [pc |-> "idle", target |-> Null, kind |-> "none", options |-> Null,
     run |-> 0,
     i |-> 0, query |-> <<>>, page |-> 0, repos |-> <<>>, allRepos |-> <<>>,
     scopeLog |-> <<>>, params |-> Null, error |-> Null, result |-> Null]

\* no result is waiting for its caller: the continuation of an awaiting
\* caller runs before any other event is handled
Quiet ==
    /\ ret = NoRet
    /\ \A c \in Callers : calls[c].pc \notin {"done", "failed"}

\* no getFromCacheOrFetch call is in flight
Idle == \A c \in Callers : calls[c].pc = "idle"

InitCache ==
    /\ cachedToken = NullValue
    /\ execSyncCalls = 0
    /\ now = 0
    /\ cacheConfig = [repoTtl |-> DEFAULT_REPO_TTL, prTtl |-> DEFAULT_PR_TTL]
    /\ files = << >>
    /\ calls = [c \in Callers |-> IdleCall]
    /\ ret = NoRet
    /\ rq = IdleRq

Tick ==
    /\ Quiet
    /\ now + TickMs <= MaxTime
    /\ now' = now + TickMs
    /\ UNCHANGED <<cacheConfig, files, calls, ret, rq>>
    /\ UNCHANGED <<cachedToken, execSyncCalls>>

GetFromCacheOrFetch(c) ==
    /\ Quiet /\ Idle
    /\ \E key \in Keys, customTtl \in TtlValues :
            GcfBegin(c, key, customTtl, "env")
    /\ UNCHANGED <<now, cacheConfig, files, ret, rq>>
    /\ UNCHANGED <<cachedToken, execSyncCalls>>

FetchResolves(c) ==
    /\ calls[c].pc \in {"fetch", "refetch"}
    /\ calls[c].fetchFn = "env"
    /\ \E data \in DataValues : GcfFetchResolved(c, data)
    /\ UNCHANGED <<now, cacheConfig, files, ret, rq>>
    /\ UNCHANGED <<cachedToken, execSyncCalls>>

FetchRejects(c) ==
    /\ calls[c].pc \in {"fetch", "refetch"}
    /\ calls[c].fetchFn = "env"
    /\ GcfFetchRejected(c, FetchError)
    /\ UNCHANGED <<now, cacheConfig, files, ret, rq>>
    /\ UNCHANGED <<cachedToken, execSyncCalls>>

SetCacheMkdir(c) ==
    /\ \E ok \in BOOLEAN : GcfSetCacheMkdir(c, ok)
    /\ UNCHANGED <<now, cacheConfig, ret, rq>>
    /\ UNCHANGED <<cachedToken, execSyncCalls>>

SetCacheWrite(c) ==
    /\ \E ok \in BOOLEAN : GcfSetCacheWrite(c, ok)
    /\ UNCHANGED <<now, cacheConfig, ret, rq>>
    /\ UNCHANGED <<cachedToken, execSyncCalls>>

\* the caller takes the result (or the exception) of its call
Return(c) ==
    /\ calls[c].pc \in {"done", "failed"}
    /\ calls' = [calls EXCEPT ![c] = IdleCall]
    /\ UNCHANGED <<now, cacheConfig, files, ret, rq>>
    /\ UNCHANGED <<cachedToken, execSyncCalls>>

\* the caller takes the result of a direct cache operation
Observe ==
    /\ ret # NoRet
    /\ ret' = NoRet
    /\ UNCHANGED <<now, cacheConfig, files, calls, rq>>
    /\ UNCHANGED <<cachedToken, execSyncCalls>>

\* a read that deletes the entry it finds expired
GetCache_DropsExpired ==
    /\ Quiet /\ Idle
    /\ \E key \in Keys :
            /\ ret' = [op |-> "getCache", key |-> key,
                       value |-> getCache(key, now)]
            /\ files' = IF isCacheValid(key, now) THEN files
                         ELSE Unlink({getCacheFilePath(key)})
    /\ UNCHANGED <<now, cacheConfig, calls, rq>>
    /\ UNCHANGED <<cachedToken, execSyncCalls>>

\* getCache(key) called directly
GetCache ==
    /\ Quiet /\ Idle
    /\ \E key \in Keys :
            ret' = [op |-> "getCache", key |-> key, value |-> getCache(key, now)]
    /\ UNCHANGED <<now, cacheConfig, files, calls, rq>>
    /\ UNCHANGED <<cachedToken, execSyncCalls>>

\* getCacheInfo(), lines 187-218: every file of the directory is counted,
\* expired or unparsable ones too; totalSize sums the sizes of the files
\* fs.stat succeeds on (sized); a failing readdir gives zeros.  The file
\* names of the model all end in '.json'.
GetCacheInfo ==
    /\ Quiet /\ Idle
    /\ \E readdirOk \in BOOLEAN, failing \in SUBSET DOMAIN files :
            ret' = IF readdirOk
                   THEN [op |-> "getCacheInfo", readdir |-> TRUE,
                         files |-> Cardinality(DOMAIN files),
                         sized |-> DOMAIN files \ failing]
                   ELSE [op |-> "getCacheInfo", readdir |-> FALSE,
                         files |-> 0, sized |-> {}]
    /\ UNCHANGED <<now, cacheConfig, files, calls, rq>>
    /\ UNCHANGED <<cachedToken, execSyncCalls>>

\* a validity test that only looks whether the file exists
IsCacheValid_ExistsOnly ==
    /\ Quiet /\ Idle
    /\ \E key \in Keys :
            ret' = [op |-> "isCacheValid", key |-> key,
                    value |-> getCacheFilePath(key) \in DOMAIN files]
    /\ UNCHANGED <<now, cacheConfig, files, calls, rq>>
    /\ UNCHANGED <<cachedToken, execSyncCalls>>

\* isCacheValid(key) called directly
IsCacheValid ==
    /\ Quiet /\ Idle
    /\ \E key \in Keys :
            ret' = [op |-> "isCacheValid", key |-> key,
                    value |-> isCacheValid(key, now)]
    /\ UNCHANGED <<now, cacheConfig, files, calls, rq>>
    /\ UNCHANGED <<cachedToken, execSyncCalls>>

\* setCache(key, data, customTtl) called directly, lines 76-96
SetCache ==
    /\ Quiet /\ Idle
    /\ \E key \in Keys, data \in DataValues, customTtl \in TtlValues,
          ok \in BOOLEAN :
            /\ IF ok
               THEN files' = WriteFile(getCacheFilePath(key),
                        CacheEntry(data, now,
                            TtlOrElse(customTtl, getDefaultTtlForKey(key))))
               ELSE files' \in FailedWrites(getCacheFilePath(key))
            /\ ret' = [op |-> "setCache", key |-> key, data |-> data,
                       customTtl |-> customTtl, threw |-> ~ok]
    /\ UNCHANGED <<now, cacheConfig, calls, rq>>
    /\ UNCHANGED <<cachedToken, execSyncCalls>>

\* removeCacheEntry(key), lines 173-182: fs.unlink succeeds only on an
\* existing file, and may fail on one
removeCacheEntry(key, ioOk) == ioOk /\ getCacheFilePath(key) \in DOMAIN files

RemoveCacheEntry ==
    /\ Quiet /\ Idle
    /\ \E key \in Keys, ioOk \in BOOLEAN :
            /\ files' = IF removeCacheEntry(key, ioOk)
                        THEN Unlink({getCacheFilePath(key)}) ELSE files
            /\ ret' = [op |-> "removeCacheEntry", key |-> key,
                       value |-> removeCacheEntry(key, ioOk)]
    /\ UNCHANGED <<now, cacheConfig, calls, rq>>
    /\ UNCHANGED <<cachedToken, execSyncCalls>>

\* a clearing that counts one error however many removals failed
ClearAllCache_OneError ==
    /\ Quiet /\ Idle
    /\ \E readdirOk \in BOOLEAN, failing \in SUBSET DOMAIN files :
            /\ files' = IF readdirOk THEN Unlink(DOMAIN files \ failing)
                        ELSE files
            /\ ret' = IF readdirOk
                      THEN [op |-> "clearAllCache", readdir |-> TRUE,
                            removed |-> Cardinality(DOMAIN files \ failing),
                            errors |-> IF failing = {} THEN 0 ELSE 1]
                      ELSE [op |-> "clearAllCache", readdir |-> FALSE,
                            removed |-> 0, errors |-> 1]
    /\ UNCHANGED <<now, cacheConfig, calls, rq>>
    /\ UNCHANGED <<cachedToken, execSyncCalls>>

\* clearAllCache, lines 265-295: every listed file is unlinked, the ones in
\* failing are those whose unlink fails; a failing readdir reports one error.
\* readdir tells whether fs.readdir listed the directory.
ClearAllCache ==
    /\ Quiet /\ Idle
    /\ \E readdirOk \in BOOLEAN, failing \in SUBSET DOMAIN files :
            /\ files' = IF readdirOk THEN Unlink(DOMAIN files \ failing)
                        ELSE files
            /\ ret' = IF readdirOk
                      THEN [op |-> "clearAllCache", readdir |-> TRUE,
                            removed |-> Cardinality(DOMAIN files \ failing),
                            errors |-> Cardinality(failing)]
                      ELSE [op |-> "clearAllCache", readdir |-> FALSE,
                            removed |-> 0, errors |-> 1]
    /\ UNCHANGED <<now, cacheConfig, calls, rq>>
    /\ UNCHANGED <<cachedToken, execSyncCalls>>

\* configureCacheSettings(options), lines 21-27; an omitted option is 0
ConfiguredRepoTtl == 2
ConfiguredPrTtl == 3
ConfiguredTtl == 5

\* the options objects given to configureCacheSettings (0: the field is
\* absent); ttl is the field the CacheOptions type and CACHE.md declare
CacheOptions ==
    [repoTtl : {0, ConfiguredRepoTtl}, prTtl : {0, ConfiguredPrTtl},
     ttl : {0, ConfiguredTtl}]

ConfigureCacheSettings ==
    /\ Quiet
    /\ \E options \in CacheOptions :
        /\ cacheConfig' = [repoTtl |-> OrElse(options.repoTtl, DEFAULT_REPO_TTL),
                           prTtl |-> OrElse(options.prTtl, DEFAULT_PR_TTL)]
        /\ ret' = [op |-> "configureCacheSettings", options |-> options]
    /\ UNCHANGED <<now, files, calls, rq>>
    /\ UNCHANGED <<cachedToken, execSyncCalls>>

NextCache ==
    \/ Tick
    \/ GetFromCacheOrFetch(1)
    \/ FetchResolves(1)
    \/ FetchRejects(1)
    \/ SetCacheMkdir(1)
    \/ SetCacheWrite(1)
    \/ Return(1)
    \/ Observe
    \/ GetCache
    \/ IsCacheValid
    \/ SetCache
    \/ RemoveCacheEntry
    \/ ClearAllCache
    \/ GetCacheInfo

Spec == InitCache /\ [][NextCache]_vars

TypeOK == now \in 0..MaxTime

\* The cache on a file system whose reads may fail: the reads of getCache,
\* isCacheValid and getFromCacheOrFetch over missing, unparsable and
\* unreadable files, with the clock at rest
ReadFault ==
    /\ Quiet /\ Idle
    /\ \E path \in DOMAIN files :
            /\ files[path] # Unreadable
            /\ files' = [files EXCEPT ![path] = Unreadable]
    /\ UNCHANGED <<now, cacheConfig, calls, ret, rq>>
    /\ UNCHANGED <<cachedToken, execSyncCalls>>

NextReads ==
    \/ ReadFault
    \/ GetCache
    \/ IsCacheValid
    \/ Observe
    \/ SetCache
    \/ GetFromCacheOrFetch(1)
    \/ FetchResolves(1)
    \/ FetchRejects(1)
    \/ SetCacheMkdir(1)
    \/ SetCacheWrite(1)
    \/ Return(1)

SpecReads == InitCache /\ [][NextReads]_vars

\* The cache with its settings: the writes of setCache and of
\* getFromCacheOrFetch under every configuration, with the clock at rest
NextConfigured ==
    \/ ConfigureCacheSettings
    \/ GetFromCacheOrFetch(1)
    \/ FetchResolves(1)
    \/ FetchRejects(1)
    \/ SetCacheMkdir(1)
    \/ SetCacheWrite(1)
    \/ Return(1)
    \/ Observe
    \/ SetCache

SpecConfigured == InitCache /\ [][NextConfigured]_vars

\* Overlapping calls: getFromCacheOrFetch entered while another call is
\* suspended at one of its awaits, with the clock at rest
GetFromCacheOrFetchDuring(c) ==
    /\ Quiet
    /\ calls[c].pc = "idle"
    /\ \E key \in Keys, customTtl \in TtlValues :
            GcfBegin(c, key, customTtl, "env")
    /\ UNCHANGED <<now, cacheConfig, files, ret, rq>>
    /\ UNCHANGED <<cachedToken, execSyncCalls>>

NextOverlap ==
    \/ \E c \in Callers : GetFromCacheOrFetchDuring(c)
    \/ \E c \in Callers : FetchResolves(c)
    \/ \E c \in Callers : FetchRejects(c)
    \/ \E c \in Callers : SetCacheMkdir(c)
    \/ \E c \in Callers : SetCacheWrite(c)
    \/ \E c \in Callers : Return(c)

SpecOverlap == InitCache /\ [][NextOverlap]_vars

------------------------------------------------------------------------------
(* Repository search: github/repositories/search.ts *)

perPage == 100
DefaultMaxPages == 10

\* A repository record: its full_name (names are numbered), and rec, which
\* tells the records of one repository returned by different requests apart
\* (it numbers the scope and the page of the request that returned it).
Repo(full_name, rec) == [full_name |-> full_name, rec |-> rec]

RecOf(i, page) == i * (DefaultMaxPages + 1) + page

\* a repository that every scope may return
SharedName(k) == k

\* the k-th repository that only page `page` of scope i returns
OwnName(i, page, k) == RecOf(i, page) * perPage + k

\* The responses of the backend to the request for a page of scope i: a full
\* page (its last repository is the shared one), or a short, last page.  Only
\* the first scope has full pages, BackendFullPages of them.
FullPage(i, page) ==
    [k \in 1..perPage |->
        Repo(IF k = perPage THEN SharedName(1) ELSE OwnName(i, page, k),
             RecOf(i, page))]

ShortPages(i, page) ==
    { <<Repo(SharedName(1), RecOf(i, page))>>,
      <<Repo(SharedName(2), RecOf(i, page)),
        Repo(SharedName(1), RecOf(i, page))>> }

Pages(i, page) ==
    ShortPages(i, page)
        \cup (IF i = 1 /\ page <= BackendFullPages
              THEN {FullPage(i, page)} ELSE {})

\* what createOctokitClient and the remote requests reject with
AuthError ==
    [from |-> "client", isError |-> TRUE,
     message |-> "GitHub authentication failed"]
NonError == [from |-> "client", isError |-> FALSE, message |-> "String error"]
ApiError == [from |-> "api", isError |-> TRUE, message |-> "API error"]

ClientErrors == {AuthError, NonError}

\* repos.slice(0, n)
Slice(repos, n) == SubSeq(repos, 1, IF n < Len(repos) THEN n ELSE Len(repos))

\* new Map(allRepos.map(repo => [repo.full_name, repo])).values(): the
\* constructor sets the pairs in array order; Map.prototype.set appends a new
\* key and replaces the value of an existing key where it stands.  So the
\* keys stand in the order of their first occurrences and each key holds the
\* value of its last occurrence.  The map of a concatenation is computed from
\* the maps of its halves: the keys of the left half keep their places and
\* take the value the right half holds for them, if any; the other keys of
\* the right half follow.
RECURSIVE NewMapValues(_)
NewMapValues(pairs) ==
    IF Len(pairs) <= 1 THEN pairs
    ELSE LET half == Len(pairs) \div 2
             left == NewMapValues(SubSeq(pairs, 1, half))
             right == NewMapValues(SubSeq(pairs, half + 1, Len(pairs)))
             leftKeys == {left[i].full_name : i \in 1..Len(left)}
             both == {repo \in Range(right) : repo.full_name \in leftKeys}
             bothKeys == {repo.full_name : repo \in both}
             Overwritten(repo) ==
                 IF repo.full_name \in bothKeys
                 THEN CHOOSE x \in both : x.full_name = repo.full_name
                 ELSE repo
         IN  [i \in 1..Len(left) |-> Overwritten(left[i])]
                \o SelectSeq(right,
                             LAMBDA repo : repo.full_name \notin bothKeys)

UniqueRepos_NoDedup(allRepos) == allRepos

\* lines 119-122: Array.from(new Map(...).values())
UniqueRepos(allRepos) == NewMapValues(allRepos)

\* lines 77-90: the query of an organization scope
OrgQuery(org, keywords) ==
    LET keywordList == IF keywords # <<>> THEN KeywordList(keywords) ELSE <<>>
        queryParts ==
            <<<<"o", "r", "g", ":">> \o org>>
                \o (IF keywordList # <<>>
                    THEN << <<"(">> \o Join(keywordList, <<" ", "O", "R", " ">>) \o <<")">> >>
                    ELSE <<>>)
    IN  Join(queryParts, <<" ">>)

UserQuery_WithKeywords ==
    <<"u", "s", "e", "r", ":", "@", "m", "e", " ", "(", "x", ")">>

\* line 106
UserQuery == <<"u", "s", "e", "r", ":", "@", "m", "e">>

\* the results of searchRepositories: lines 31-37 / 41-47 and 51-57
RepoSuccess(data, cached) ==
    [success |-> TRUE, items |-> data, total_count |-> Len(data),
     incomplete_results |-> FALSE, cached |-> cached]

\* the results of searchPullRequests: lines 48-54 / 58-64 of
\* pull-requests/search.ts
PrSuccess(data, cached) ==
    [success |-> TRUE, items |-> data.items, total_count |-> data.total_count,
     incomplete_results |-> data.incomplete_results, cached |-> cached]

Success(r, data, cached) ==
    IF r.kind = "repos" THEN RepoSuccess(data, cached)
    ELSE PrSuccess(data, cached)

\* the catch blocks of searchRepositories (lines 49-58) and of
\* searchPullRequests (lines 66-75): error instanceof Error ? error.message
\* : 'Unknown error'
ErrorString_MessageOfAnything(thrown) == thrown.message

ErrorString(thrown) ==
    IF thrown.isError THEN thrown.message ELSE "Unknown error"

SearchFailure(thrown) ==
    [success |-> FALSE, items |-> <<>>, total_count |-> 0,
     incomplete_results |-> FALSE, error |-> ErrorString(thrown)]

\* the request octokit.rest.search.repos({q, per_page, page}) is issued
IssuePage(r, page) ==
    [r EXCEPT !.pc = "page", !.page = page]

\* lines 74-117: the loop over the organizations, then the user scope;
\* searchRepositoriesInOrgOrUser is entered and issues its first request.
\* Past the last scope the fetch is complete (pc = "fetched").
EnterScope(r, i) ==
    LET orgs == r.options.organizations
    IN  IF i <= Len(orgs)
        THEN IssuePage([r EXCEPT !.i = i, !.repos = <<>>,
                            !.query = OrgQuery(orgs[i], r.options.keywords)], 1)
        ELSE IF i = Len(orgs) + 1 /\ r.options.includeCurrentUser
        THEN IssuePage([r EXCEPT !.i = i, !.repos = <<>>,
                                 !.query = UserQuery], 1)
        ELSE [r EXCEPT !.pc = "fetched", !.i = 0, !.query = <<>>, !.page = 0,
                       !.repos = <<>>]

\* lines 171-176 and 98 / 114: the scope returns its (capped) repositories,
\* which are pushed onto allRepos; the next scope is entered
EndScope(r, failed) ==
    LET maxResults == r.options.maxResults
        returned == IF maxResults # 0 /\ Len(r.repos) > maxResults
                    THEN Slice(r.repos, maxResults) ELSE r.repos
    IN  EnterScope([r EXCEPT !.allRepos = @ \o returned,
                        !.scopeLog = Append(@, [i |-> r.i, q |-> r.query,
                                                failed |-> failed,
                                                requests |-> r.page,
                                                fetched |-> Len(r.repos),
                                                returned |-> Len(returned)])],
                   r.i + 1)

PageArrived_OnePageMore(r, pageRepos) ==
    LET repos == r.repos \o pageRepos
        maxPages == OrElse(r.options.maxPages, DefaultMaxPages)
        r1 == [r EXCEPT !.repos = repos]
    IN  IF Len(pageRepos) < perPage THEN EndScope(r1, FALSE)
        ELSE IF r.options.maxResults # 0 /\ Len(repos) >= r.options.maxResults
        THEN EndScope(r1, FALSE)
        ELSE IF r.page <= maxPages THEN IssuePage(r1, r.page + 1)
        ELSE EndScope(r1, FALSE)

\* lines 150-164: a page arrived
PageArrived(r, pageRepos) ==
    LET repos == r.repos \o pageRepos
        maxPages == OrElse(r.options.maxPages, DefaultMaxPages)
        r1 == [r EXCEPT !.repos = repos]
    IN  IF Len(pageRepos) < perPage THEN EndScope(r1, FALSE)
        ELSE IF r.options.maxResults # 0 /\ Len(repos) >= r.options.maxResults
        THEN EndScope(r1, FALSE)
        ELSE IF r.page + 1 <= maxPages THEN IssuePage(r1, r.page + 1)
        ELSE EndScope(r1, FALSE)

PageFailed_StopsSearch(r, error) ==
    [EndScope(r, TRUE) EXCEPT !.pc = "fetched", !.i = 0, !.query = <<>>,
                              !.page = 0, !.repos = <<>>]

\* lines 166-169: a page request failed; the error is logged, not thrown
PageFailed(r, error) == EndScope(r, TRUE)

\* fetchFn is invoked: createOctokitClient is awaited (lines 67 / 88)
StartFetch(r) ==
    [r EXCEPT !.pc = "client", !.run = @ + 1, !.i = 0, !.query = <<>>,
              !.page = 0, !.repos = <<>>, !.allRepos = <<>>,
              !.scopeLog = <<>>, !.params = Null]

\* the fetch function returned data: to getFromCacheOrFetch when the cache is
\* used, else to lines 40-47 of searchRepositories
FetchReturned(r, data) ==
    IF r.options.useCache
    THEN /\ GcfFetchResolved(1, data)
         /\ rq' = [r EXCEPT !.pc = "gcf"]
    ELSE /\ rq' = [r EXCEPT !.pc = "returned",
                            !.result = Success(r, data, FALSE)]
         /\ UNCHANGED calls

\* the fetch function threw: into getFromCacheOrFetch, whose catch block
\* invokes it again the first time, else into the catch of lines 49-58
FetchThrew(r, error) ==
    IF r.options.useCache
    THEN /\ GcfFetchRejected(1, error)
         /\ rq' = IF calls[1].pc = "fetch" THEN StartFetch(r)
                  ELSE [r EXCEPT !.pc = "gcf"]
    ELSE /\ rq' = [r EXCEPT !.pc = "returned", !.error = Some(error),
                            !.result = SearchFailure(error)]
         /\ UNCHANGED calls

\* all scopes are done: lines 119-125, the fetch function returns
Continue(r) ==
    IF r.pc = "fetched"
    THEN \E uniqueRepos \in {UniqueRepos(r.allRepos)} :
            FetchReturned(r, uniqueRepos)
    ELSE rq' = r /\ UNCHANGED calls

------------------------------------------------------------------------------
(* Pull-request search: pull-requests/search.ts                              *)

\* Array.prototype.includes / String.prototype.includes(' ')
Includes(seq, x) == \E i \in 1..Len(seq) : seq[i] = x

Min(a, b) == IF a < b THEN a ELSE b

StateOpen == <<"o", "p", "e", "n">>
StateClosed == <<"c", "l", "o", "s", "e", "d">>
StateMerged == <<"m", "e", "r", "g", "e", "d">>
StateDraft == <<"d", "r", "a", "f", "t">>
StateAll == <<"a", "l", "l">>

\* options.labels.forEach: lines 165-169
RECURSIVE LabelQueries(_)
LabelQueries(labels) ==
    IF labels = <<>> THEN <<>>
    ELSE LET label == Head(labels)
             labelQuery == IF Includes(label, " ")
                           THEN <<"\"">> \o label \o <<"\"">> ELSE label
         IN  <<<<"l", "a", "b", "e", "l", ":">> \o labelQuery>>
                \o LabelQueries(Tail(labels))

\* a query builder that ignores every filter
buildSearchQuery_ScopeOnly(options) ==
    <<"r", "e", "p", "o", ":">> \o options.owner \o <<"/">> \o options.repo
        \o <<" ", "i", "s", ":", "p", "r">>

\* buildSearchQuery(options), lines 123-185
buildSearchQuery(options) ==
    LET states == options.states
        stateQueries ==
            (IF Includes(states.v, StateOpen)
             THEN <<<<"i", "s", ":">> \o StateOpen>> ELSE <<>>)
            \o (IF Includes(states.v, StateClosed)
                THEN <<<<"i", "s", ":">> \o StateClosed>> ELSE <<>>)
            \o (IF Includes(states.v, StateMerged)
                THEN <<<<"i", "s", ":">> \o StateMerged>> ELSE <<>>)
            \o (IF Includes(states.v, StateDraft)
                THEN <<<<"i", "s", ":">> \o StateDraft>> ELSE <<>>)
        queryParts ==
            <<<<"r", "e", "p", "o", ":">> \o options.owner \o <<"/">>
                    \o options.repo>>
            \o <<<<"i", "s", ":", "p", "r">>>>
            \o (IF Truthy(states) /\ Len(states.v) > 0
                        /\ ~Includes(states.v, StateAll)
                THEN IF Len(stateQueries) > 1
                     THEN <<<<"(">> \o Join(stateQueries, <<" ", "O", "R", " ">>)
                                \o <<")">>>>
                     ELSE IF Len(stateQueries) = 1 THEN <<stateQueries[1]>>
                     ELSE <<>>
                ELSE <<>>)
            \o (IF Truthy(options.author)
                THEN <<<<"a", "u", "t", "h", "o", "r", ":">> \o options.author.v>>
                ELSE <<>>)
            \o (IF Truthy(options.assignee)
                THEN <<<<"a", "s", "s", "i", "g", "n", "e", "e", ":">>
                            \o options.assignee.v>>
                ELSE <<>>)
            \o (IF Truthy(options.labels) /\ Len(options.labels.v) > 0
                THEN LabelQueries(options.labels.v) ELSE <<>>)
            \o (IF Truthy(options.dateFrom)
                THEN <<<<"c", "r", "e", "a", "t", "e", "d", ":", ">", "=">>
                            \o options.dateFrom.v>>
                ELSE <<>>)
            \o (IF Truthy(options.dateTo)
                THEN <<<<"c", "r", "e", "a", "t", "e", "d", ":", "<", "=">>
                            \o options.dateTo.v>>
                ELSE <<>>)
            \o (IF Truthy(options.query) THEN <<options.query.v>> ELSE <<>>)
    IN  Join(queryParts, <<" ">>)

\* lines 96-104: the parameters of the request
SearchParams(options) ==
    [q |-> buildSearchQuery(options),
     per_page |-> Min(IF Truthy(options.maxResults)
                      THEN options.maxResults.v ELSE 100, 100),
     sort |-> IF options.sort = Str(<<"c", "r", "e", "a", "t", "e", "d">>)
              THEN "created" ELSE "updated",
     order |-> IF options.order = Str(<<"a", "s", "c">>)
               THEN "asc" ELSE "desc",
     advanced_search |-> "true"]

\* lines 27-39: the options object the cache key is derived from
PrKeyOptions(options) ==
    << <<<<"s", "t", "a", "t", "e", "s">>, options.states>>,
       <<<<"s", "o", "r", "t">>, options.sort>>,
       <<<<"o", "r", "d", "e", "r">>, options.order>>,
       <<<<"a", "u", "t", "h", "o", "r">>, options.author>>,
       <<<<"a", "s", "s", "i", "g", "n", "e", "e">>, options.assignee>>,
       <<<<"l", "a", "b", "e", "l", "s">>, options.labels>>,
       <<<<"r", "e", "v", "i", "e", "w", "S", "t", "a", "t", "u", "s">>,
         options.reviewStatus>>,
       <<<<"q", "u", "e", "r", "y">>, options.query>>,
       <<<<"d", "a", "t", "e", "F", "r", "o", "m">>, options.dateFrom>>,
       <<<<"d", "a", "t", "e", "T", "o">>, options.dateTo>>,
       <<<<"m", "a", "x", "R", "e", "s", "u", "l", "t", "s">>,
         options.maxResults>> >>

\* line 107: octokit.rest.search.issuesAndPullRequests(searchParams) is
\* awaited
IssueSearch(r) == [r EXCEPT !.pc = "issues", !.params = SearchParams(r.options)]

\* What the backend answers: at most per_page of the pull requests 1 and 2,
\* and the number of matches it reports (2 or 7)
Pr(number) == [number |-> number]

IssuesResponses(per_page) ==
    { [items |-> [k \in 1..n |-> Pr(k)], total_count |-> total,
       incomplete_results |-> FALSE] :
        n \in 0..Min(2, per_page), total \in {2, 7} }

------------------------------------------------------------------------------
(* The search specification: requests made one after the other against a   *)
(* backend that answers each page request with a page or an error.          *)

OrgA == <<"a">>
OrgB == <<"b">>

\* What the requests of one behaviour search for: the organizations, the
\* includeCurrentUser flag and the keywords of a repository search, or the
\* repository of a pull-request search
Targets ==
    { [kind |-> "repos", organizations |-> <<>>,
       includeCurrentUser |-> FALSE, keywords |-> <<>>],
      [kind |-> "repos", organizations |-> <<OrgB>>,
       includeCurrentUser |-> FALSE, keywords |-> <<>>],
      [kind |-> "repos", organizations |-> <<OrgB, OrgA>>,
       includeCurrentUser |-> FALSE, keywords |-> <<"x">>],
      [kind |-> "repos", organizations |-> <<OrgB>>,
       includeCurrentUser |-> TRUE, keywords |-> <<"x">>],
      [kind |-> "repos", organizations |-> <<>>,
       includeCurrentUser |-> TRUE, keywords |-> <<"x">>],
      [kind |-> "prs", owner |-> <<"o">>, repo |-> <<"r">>] }

\* the caps <<maxResults, maxPages>> of a search; 0 stands for an absent
\* number
Caps == { cap \in {0, 1, 150} \X {0, 1, 2} : cap[2] = 2 \/ cap[1] = 0 }

\* the options of a repository search
RepoOptions(target) ==
    { [organizations |-> target.organizations,
       includeCurrentUser |-> target.includeCurrentUser,
       keywords |-> target.keywords,
       useCache |-> uc, cacheTtl |-> Undefined,
       maxResults |-> cap[1], maxPages |-> cap[2]] :
        uc \in BOOLEAN, cap \in Caps }

\* the options of a pull-request search
PrOptions(target) ==
    { [owner |-> target.owner, repo |-> target.repo,
       states |-> Arr(<<StateOpen, StateMerged>>),
       sort |-> Undefined, order |-> Undefined,
       author |-> Str(<<"a", "l">>), assignee |-> Undefined,
       labels |-> Undefined, reviewStatus |-> Undefined,
       query |-> Undefined, dateFrom |-> Undefined, dateTo |-> Undefined,
       maxResults |-> mr, useCache |-> uc, cacheTtl |-> Undefined] :
        uc \in BOOLEAN, mr \in {Undefined, Num(1)} }

InitSearch ==
    /\ cachedToken = NullValue
    /\ execSyncCalls = 0
    /\ now = 0
    /\ cacheConfig = [repoTtl |-> DEFAULT_REPO_TTL, prTtl |-> DEFAULT_PR_TTL]
    /\ files = << >>
    /\ calls = [c \in Callers |-> IdleCall]
    /\ ret = NoRet
    /\ \E target \in Targets : rq = [IdleRq EXCEPT !.target = target]

\* a search that goes through the cache whatever useCache says
SearchRepositories_AlwaysCached ==
    /\ rq.pc = "idle"
    /\ rq.target.kind = "repos"
    /\ \E options \in RepoOptions(rq.target) :
        LET r == [rq EXCEPT !.kind = "repos", !.options = options]
        IN  /\ GcfBegin(1, generateRepoSearchCacheKey(
                                options.organizations,
                                Str(options.keywords),
                                options.includeCurrentUser),
                         options.cacheTtl, "repos")
            /\ rq' = IF calls'[1].pc = "fetch" THEN StartFetch(r)
                      ELSE [r EXCEPT !.pc = "gcf"]
    /\ UNCHANGED <<now, cacheConfig, files, ret>>
    /\ UNCHANGED <<cachedToken, execSyncCalls>>

\* searchRepositories(options), lines 12-29 and 38-40
SearchRepositories ==
    /\ rq.pc = "idle"
    /\ rq.target.kind = "repos"
    /\ \E options \in RepoOptions(rq.target) :
        LET r == [rq EXCEPT !.kind = "repos", !.options = options]
        IN  IF options.useCache
            THEN /\ GcfBegin(1, generateRepoSearchCacheKey(
                                    options.organizations,
                                    Str(options.keywords),
                                    options.includeCurrentUser),
                             options.cacheTtl, "repos")
                 /\ LET sorted == [r EXCEPT !.options.organizations =
                                        SortStrings(options.organizations)]
                    IN  rq' = IF calls'[1].pc = "fetch" THEN StartFetch(sorted)
                              ELSE [sorted EXCEPT !.pc = "gcf"]
            ELSE /\ rq' = StartFetch(r)
                 /\ UNCHANGED calls
    /\ UNCHANGED <<now, cacheConfig, files, ret>>
    /\ UNCHANGED <<cachedToken, execSyncCalls>>

\* searchPullRequests({options}), lines 16-46 and 55-57 of
\* pull-requests/search.ts
SearchPullRequests ==
    /\ rq.pc = "idle"
    /\ rq.target.kind = "prs"
    /\ \E options \in PrOptions(rq.target) :
        LET r == [rq EXCEPT !.kind = "prs", !.options = options]
        IN  IF options.useCache
            THEN /\ GcfBegin(1, generatePRSearchCacheKey(
                                    options.owner, options.repo,
                                    PrKeyOptions(options)),
                             options.cacheTtl, "prs")
                 /\ rq' = IF calls'[1].pc = "fetch" THEN StartFetch(r)
                          ELSE [r EXCEPT !.pc = "gcf"]
            ELSE /\ rq' = StartFetch(r)
                 /\ UNCHANGED calls
    /\ UNCHANGED <<now, cacheConfig, files, ret>>
    /\ UNCHANGED <<cachedToken, execSyncCalls>>

\* createOctokitClient returned or threw (lines 67 / 88)
ClientResponds ==
    /\ rq.pc = "client"
    /\ \/ /\ rq.kind = "repos"
          /\ \E r \in {EnterScope(rq, 1)} : Continue(r)
       \/ /\ rq.kind = "prs"
          /\ rq' = IssueSearch(rq)
          /\ UNCHANGED calls
       \/ \E error \in ClientErrors : FetchThrew(rq, error)
    /\ UNCHANGED <<now, cacheConfig, files, ret>>
    /\ UNCHANGED <<cachedToken, execSyncCalls>>

\* the backend answers the page request
PageResponds ==
    /\ rq.pc = "page"
    /\ \/ \E pageRepos \in Pages(rq.i, rq.page) :
            \E r \in {PageArrived(rq, pageRepos)} : Continue(r)
       \/ \E r \in {PageFailed(rq, ApiError)} : Continue(r)
    /\ UNCHANGED <<now, cacheConfig, files, ret>>
    /\ UNCHANGED <<cachedToken, execSyncCalls>>

\* the backend answers the pull-request search (lines 106-117), or fails
IssuesResponds ==
    /\ rq.pc = "issues"
    /\ \/ \E data \in IssuesResponses(rq.params.per_page) :
                FetchReturned(rq, data)
       \/ FetchThrew(rq, ApiError)
    /\ UNCHANGED <<now, cacheConfig, files, ret>>
    /\ UNCHANGED <<cachedToken, execSyncCalls>>

\* setCache inside getFromCacheOrFetch; a failure re-runs the fetch function
SearchSetCacheMkdir ==
    /\ rq.pc = "gcf"
    /\ \E ok \in BOOLEAN : GcfSetCacheMkdir(1, ok)
    /\ rq' = IF calls'[1].pc = "refetch" THEN StartFetch(rq) ELSE rq
    /\ UNCHANGED <<now, cacheConfig, ret>>
    /\ UNCHANGED <<cachedToken, execSyncCalls>>

SearchSetCacheWrite ==
    /\ rq.pc = "gcf"
    /\ \E ok \in BOOLEAN : GcfSetCacheWrite(1, ok)
    /\ rq' = IF calls'[1].pc = "refetch" THEN StartFetch(rq) ELSE rq
    /\ UNCHANGED <<now, cacheConfig, ret>>
    /\ UNCHANGED <<cachedToken, execSyncCalls>>

\* getFromCacheOrFetch returned or threw: lines 31-37 and 49-58
SearchDeliver ==
    /\ rq.pc = "gcf"
    /\ calls[1].pc \in {"done", "failed"}
    /\ rq' = IF calls[1].pc = "done"
             THEN [rq EXCEPT !.pc = "returned",
                             !.result = Success(rq, calls[1].result.data,
                                                calls[1].result.cached)]
             ELSE [rq EXCEPT !.pc = "returned", !.error = calls[1].thrown,
                             !.result = SearchFailure(calls[1].thrown.data)]
    /\ calls' = [calls EXCEPT ![1] = IdleCall]
    /\ UNCHANGED <<now, cacheConfig, files, ret>>
    /\ UNCHANGED <<cachedToken, execSyncCalls>>

\* the caller takes the result
SearchFinish ==
    /\ rq.pc = "returned"
    /\ rq' = [IdleRq EXCEPT !.target = rq.target]
    /\ UNCHANGED <<now, cacheConfig, files, calls, ret>>
    /\ UNCHANGED <<cachedToken, execSyncCalls>>

NextSearch ==
    \/ SearchRepositories
    \/ SearchPullRequests
    \/ ClientResponds
    \/ PageResponds
    \/ IssuesResponds
    \/ SearchSetCacheMkdir
    \/ SearchSetCacheWrite
    \/ SearchDeliver
    \/ SearchFinish

SpecSearch == InitSearch /\ [][NextSearch]_vars

\* The searches when every request made is answered (it returns or fails)
\* and every continuation that can run does run.  While a call is in flight
\* the only steps are these answers and continuations (the caller's actions
\* need pc = "idle" or "returned") and one of them is enabled, so weak
\* fairness of their disjunction is: a call in flight for ever takes steps
\* for ever.  The caller is not obliged to start a search or to take its
\* result.
InFlight == rq.pc \notin {"idle", "returned"}

SpecSearchFair ==
    /\ SpecSearch
    /\ ([]<>(~InFlight) \/ []<><<NextSearch>>_vars)

------------------------------------------------------------------------------
(* Credentials: auth/index.ts *)

\* what execSync('gh auth token') yields: the text printed, or a throw
CliOutcomes ==
    {Str(out) : out \in {<<>>, <<" ">>, <<"a">>, <<" ", "a", " ">>, <<"b">>,
                         <<"b", " ">>, <<"c">>, <<"d">>}}
        \cup {[t |-> "throws"]}

AuthSuccess(token) == [success |-> TRUE, token |-> token]

AuthFailure(error) == [success |-> FALSE, error |-> error]

AuthResults ==
    {AuthSuccess(Trim(out.v)) : out \in {o \in CliOutcomes : o.t = "string"}}
        \cup {AuthFailure("GitHub CLI returned empty token"),
              AuthFailure("GitHub CLI authentication failed")}

\* getGitHubToken that runs the CLI on every call
getGitHubToken_AlwaysRuns(result) ==
    /\ execSyncCalls < MaxCliRuns
    /\ execSyncCalls' = execSyncCalls + 1
    /\ \E out \in CliOutcomes :
        IF out.t = "throws"
        THEN /\ result = AuthFailure("GitHub CLI authentication failed")
             /\ UNCHANGED cachedToken
        ELSE LET token == Trim(out.v)
             IN  IF token = <<>>
                 THEN /\ result = AuthFailure("GitHub CLI returned empty token")
                      /\ UNCHANGED cachedToken
                 ELSE /\ cachedToken' = Str(token)
                      /\ result = AuthSuccess(token)

\* getGitHubToken resolving to result: the cached token when there is one,
\* and otherwise the trimmed output of the CLI, cached when it is not empty
getGitHubToken(result) ==
    \/ /\ Truthy(cachedToken)
       /\ result = AuthSuccess(cachedToken.v)
       /\ UNCHANGED <<cachedToken, execSyncCalls>>
    \/ /\ ~Truthy(cachedToken)
       /\ execSyncCalls < MaxCliRuns
       /\ execSyncCalls' = execSyncCalls + 1
       /\ \E out \in CliOutcomes :
            IF out.t = "throws"
            THEN /\ result = AuthFailure("GitHub CLI authentication failed")
                 /\ UNCHANGED cachedToken
            ELSE LET token == Trim(out.v)
                 IN  IF token = <<>>
                     THEN /\ result =
                                AuthFailure("GitHub CLI returned empty token")
                          /\ UNCHANGED cachedToken
                     ELSE /\ cachedToken' = Str(token)
                          /\ result = AuthSuccess(token)

GetGitHubToken ==
    /\ \E result \in AuthResults :
            /\ getGitHubToken(result)
            /\ ret' = [op |-> "getGitHubToken", result |-> result]
    /\ UNCHANGED <<now, cacheConfig, files, calls, rq>>

ClearGitHubTokenCache ==
    /\ cachedToken' = NullValue
    /\ ret' = [op |-> "clearGitHubTokenCache"]
    /\ UNCHANGED <<now, cacheConfig, files, calls, rq, execSyncCalls>>

\* the request to api.github.com/user answers ok, answers not ok, or throws
TestGitHubAuthentication ==
    /\ \E result \in AuthResults :
            /\ getGitHubToken(result)
            /\ \E response \in {"ok", "notOk", "threw"} :
                ret' = [op |-> "testGitHubAuthentication",
                        value |-> IF ~result.success \/ result.token = <<>>
                                   THEN FALSE
                                   ELSE response = "ok"]
    /\ UNCHANGED <<now, cacheConfig, files, calls, rq>>

\* github/client.ts: the client holds the token, or the creation throws
CreateOctokitClient ==
    /\ \E authResult \in AuthResults :
            /\ getGitHubToken(authResult)
            /\ ret' = IF ~authResult.success \/ authResult.token = <<>>
                      THEN [op |-> "createOctokitClient",
                            threw |-> "GitHub authentication failed"]
                      ELSE [op |-> "createOctokitClient",
                            auth |-> authResult.token]
    /\ UNCHANGED <<now, cacheConfig, files, calls, rq>>

NextAuth ==
    \/ GetGitHubToken
    \/ ClearGitHubTokenCache
    \/ TestGitHubAuthentication
    \/ CreateOctokitClient

SpecAuth == InitCache /\ [][NextAuth]_vars

------------------------------------------------------------------------------
(* Claims about the cache store and getFromCacheOrFetch (Spec) *)

\* the entry a key's file holds, when it parses
HasEntry(key) ==
    /\ getCacheFilePath(key) \in DOMAIN files
    /\ files[getCacheFilePath(key)] \notin {Corrupt, Unreadable}

EntryOf(key) == files[getCacheFilePath(key)]

\* C1: getCache returns the stored data exactly when the key's entry exists,
\* parses and (now - timestamp) / 1000 < ttl, and null otherwise (also when
\* the age equals the ttl); isCacheValid returns the truth of that condition.
\* Both are computed from the stored timestamp and ttl at the time of the read.
C1_ValidIffAgeBelowTtl ==
    /\ ret.op = "getCache" =>
            IF /\ HasEntry(ret.key)
               /\ now - EntryOf(ret.key).timestamp < EntryOf(ret.key).ttl * 1000
            THEN ret.value = Some(EntryOf(ret.key).data)
            ELSE ret.value = Null
    /\ ret.op = "isCacheValid" =>
            (ret.value <=>
                /\ HasEntry(ret.key)
                /\ now - EntryOf(ret.key).timestamp < EntryOf(ret.key).ttl * 1000)

\* an entry read at the instant its age equals its ttl is absent
C1_Witness ==
    /\ ret.op = "getCache"
    /\ HasEntry(ret.key)
    /\ now - EntryOf(ret.key).timestamp = EntryOf(ret.key).ttl * 1000
    /\ ret.value = Null

\* C2: a getFromCacheOrFetch call that begins while the key's entry is present
\* and unexpired returns the stored data with cached = TRUE and invokes no
\* fetch; the call that wrote the entry after a miss invoked its fetch once, so
\* two such sequential calls invoke the fetch function exactly once.
C2_SecondCallServedFromCache ==
    [][\A c \in Callers :
        /\ (/\ calls[c].pc = "idle"
            /\ calls'[c].pc # "idle"
            /\ HasEntry(calls'[c].key)
            /\ now - EntryOf(calls'[c].key).timestamp
                    < EntryOf(calls'[c].key).ttl * 1000)
           => /\ calls'[c].pc = "done"
              /\ calls'[c].result = [data |-> EntryOf(calls'[c].key).data,
                                     cached |-> TRUE]
              /\ calls'[c].fetchCalls = 0
        /\ (/\ calls[c].pc = "fetch"
            /\ calls'[c].pc = "mkdir")
           => calls'[c].fetchCalls = 1
        /\ (/\ calls[c].pc = "write"
            /\ calls'[c].pc = "done")
           => /\ calls'[c].fetchCalls = calls[c].fetchCalls
              /\ HasEntry(calls[c].key)'
              /\ EntryOf(calls[c].key)'.data = calls'[c].result.data]_vars

\* a call served from an unexpired entry some time after it was written
C2_Witness ==
    \E c \in Callers :
        /\ calls[c].pc = "done"
        /\ calls[c].result.cached
        /\ calls[c].fetchCalls = 0
        /\ HasEntry(calls[c].key)
        /\ now > EntryOf(calls[c].key).timestamp
        /\ calls[c].result.data = EntryOf(calls[c].key).data

\* C3: on a miss the fetch function is invoked exactly once during the call,
\* whether the fetch or the cache write succeeds or fails, and a failure of
\* the fetch function is propagated to the caller (a call leaves "fetch" for
\* "mkdir" when its fetch function resolves, and otherwise when it rejects).
C3_FetchInvokedOnce ==
    [][\A c \in Callers :
        /\ calls'[c].fetchCalls <= 1
        /\ (/\ calls[c].pc = "fetch"
            /\ calls'[c].pc \notin {"fetch", "mkdir"})
           => calls'[c].pc = "failed"]_vars

\* C4: when the fetch function succeeded, the call completes with the data of
\* that fetch and cached = FALSE whether the cache write that follows succeeds
\* or fails (mkdir or writeFile); it never fails because of the write.
C4_WriteFailureNotFatal ==
    [][\A c \in Callers :
        (/\ calls[c].pc \in {"mkdir", "write"}
         /\ calls'[c].pc \notin {"mkdir", "write"})
        => /\ calls'[c].pc = "done"
           /\ calls'[c].result = [data |-> calls[c].freshData.data,
                                  cached |-> FALSE]]_vars

------------------------------------------------------------------------------
(* Claims about the searches, checked under SpecSearch *)

\* the number of scopes of a repository search
ScopeCount(options) ==
    Len(options.organizations) + (IF options.includeCurrentUser THEN 1 ELSE 0)

\* the repositories the k-th scope of the current run returned, as they stand
\* in allRepos
RECURSIVE ReturnedBefore(_, _)
ReturnedBefore(scopeLog, k) ==
    IF k <= 1 THEN 0
    ELSE ReturnedBefore(scopeLog, k - 1) + scopeLog[k - 1].returned

ScopeItems(r, k) ==
    SubSeq(r.allRepos, ReturnedBefore(r.scopeLog, k) + 1,
           ReturnedBefore(r.scopeLog, k) + r.scopeLog[k].returned)

Names(repos) == [k \in 1..Len(repos) |-> repos[k].full_name]

\* a fresh repository result is about to be handed to the caller
FreshRepoResult ==
    /\ rq.pc = "returned"
    /\ rq.kind = "repos"
    /\ rq.run > 0
    /\ rq.error = Null

C6_FailedScopeIsSkipped ==
    (rq.pc = "returned" /\ \E k \in 1..Len(rq.scopeLog) : rq.scopeLog[k].failed)
    => /\ Len(rq.scopeLog) = ScopeCount(rq.options)
       /\ rq.result.success
       /\ \A k \in 1..Len(rq.scopeLog) :
            ~rq.scopeLog[k].failed
            => Range(Names(ScopeItems(rq, k))) \subseteq Range(Names(rq.result.items))

C6_Witness ==
    /\ rq.pc = "returned"
    /\ Len(rq.scopeLog) = 2
    /\ rq.scopeLog[1].failed
    /\ ~rq.scopeLog[2].failed
    /\ rq.scopeLog[2].returned = 1
    /\ rq.result.success
    /\ Len(rq.result.items) = 1

\* the names of a list in the order in which they are first seen
FirstSeen(names) ==
    LET firsts == SelectSeq([i \in 1..Len(names) |-> i],
                            LAMBDA i : \A j \in 1..(i - 1) : names[j] # names[i])
    IN  [k \in 1..Len(firsts) |-> names[firsts[k]]]

FirstIndex(repos, full_name) ==
    CHOOSE i \in 1..Len(repos) :
        /\ repos[i].full_name = full_name
        /\ \A j \in 1..(i - 1) : repos[j].full_name # full_name

\* C7: in a successful searchRepositories result no two items share a
\* full_name, and the names of a fresh result are the names the scopes
\* returned, each once, in first-seen order of the concatenation of the scope
\* results.
C7_UniqueInFirstSeenOrder ==
    (rq.pc = "returned" /\ rq.kind = "repos" /\ rq.result.success)
    => LET items == rq.result.items
       IN  /\ Cardinality(Range(Names(items))) = Len(items)
           /\ FreshRepoResult
              => Names(items) = FirstSeen(Names(rq.allRepos))

C7_Witness ==
    /\ FreshRepoResult
    /\ Len(rq.scopeLog) = 2
    /\ Len(rq.result.items) = 2
    /\ Len(rq.allRepos) = 3

\* C8: the record kept for a full_name that was returned more than once is
\* the record of its first occurrence.
C8_FirstRecordKept ==
    FreshRepoResult
    => \A k \in 1..Len(rq.result.items) :
        rq.result.items[k]
            = rq.allRepos[FirstIndex(rq.allRepos,
                                     rq.result.items[k].full_name)]

\* C9: with maxResults configured, the result of searchRepositories has at
\* most maxResults items, whatever the number of scopes.
C9_AtMostMaxResults ==
    (/\ rq.pc = "returned"
     /\ rq.kind = "repos"
     /\ rq.result.success
     /\ rq.options.maxResults # 0)
    => Len(rq.result.items) <= rq.options.maxResults

\* a scope of the current run whose requests (maxPages = 2) were all
\* answered with a full page
AllPagesFull(entry) ==
    /\ rq.kind = "repos"
    /\ rq.options.maxPages = 2
    /\ ~entry.failed
    /\ entry.fetched = entry.requests * perPage

\* C10 as stated: with maxPages = 2, a scope whose every request is answered
\* with a full page gets exactly 2 page requests, for every maxResults.
C10_ExactlyTwoRequests ==
    \A k \in 1..Len(rq.scopeLog) :
        AllPagesFull(rq.scopeLog[k]) => rq.scopeLog[k].requests = 2

\* C10, amended: with maxPages = 2 no run of the fetch ever requests a 3rd
\* page of a scope; a scope whose every request is answered with a full page
\* gets exactly 2 page requests when maxResults is absent or greater than the
\* page size, and exactly 1 when maxResults is at most the page size.
C10_TwoRequestsUnlessCapMet ==
    /\ (rq.kind = "repos" /\ rq.options.maxPages = 2) => rq.page <= 2
    /\ \A k \in 1..Len(rq.scopeLog) :
        AllPagesFull(rq.scopeLog[k])
        => rq.scopeLog[k].requests =
            (IF rq.options.maxResults = 0 \/ rq.options.maxResults > perPage
             THEN 2 ELSE 1)

C10_Witness ==
    /\ Len(rq.scopeLog) >= 1
    /\ AllPagesFull(rq.scopeLog[1])
    /\ rq.options.maxResults = 150
    /\ rq.scopeLog[1].requests = 2

------------------------------------------------------------------------------
(* The key derivation specification: the two key builders applied to pairs  *)
(* of arguments.                                                            *)

MaxOrgs == 2     \* organizations in a list
MaxTokens == 3   \* comma-separated pieces of a keywords string

\* organization identifiers
OrgNames == {<<"a">>, <<"b">>, <<"a", "b">>}

OrgLists == UNION {[1..n -> OrgNames] : n \in 0..MaxOrgs}

\* the pieces of a keywords string: a keyword with or without blanks around
\* it, a blank piece, an empty piece
RawTokens == {<<>>, <<" ">>, <<"a">>, <<" ", "a", " ">>, <<"b">>}

TokenLists == UNION {[1..n -> RawTokens] : n \in 0..MaxTokens}

\* a keywords argument: none (Null), or the pieces of the string
TokenInputs == {Null} \cup {Some(tokens) : tokens \in TokenLists}

\* keywords arguments made of bare keywords only
BareTokenInputs ==
    {Null} \cup {Some(tokens) : tokens \in
                    UNION {[1..n -> {<<"a">>, <<"b">>}] : n \in 0..MaxTokens}}

\* the keywords argument handed to generateRepoSearchCacheKey
KeywordsOf(tokens) ==
    IF tokens = Null THEN Undefined ELSE Str(Join(tokens.data, <<",">>))

RepoArgs(orgLists, tokenInputs) ==
    [organizations : orgLists, tokens : tokenInputs]

\* pairs of argument lists: any two organization lists, and any keywords
\* argument with any argument of bare keywords that holds the same set of
\* keywords
Count(list, x) == Cardinality({i \in 1..Len(list) : list[i] = x})

Core(token) == SelectSeq(token, LAMBDA c : c # " ")

Cores(tokens) ==
    IF tokens = Null THEN <<>>
    ELSE LET cores == [i \in 1..Len(tokens.data) |-> Core(tokens.data[i])]
         IN  SelectSeq(cores, LAMBDA core : core # <<>>)

SameBag(listA, listB) ==
    \A x \in Range(listA) \cup Range(listB) : Count(listA, x) = Count(listB, x)

RepoKeyInputs ==
    { [op |-> "keyInput", kind |-> "repos", a |-> a, b |-> b,
       includeCurrentUser |-> u] :
        a \in RepoArgs(OrgLists, {Null, Some(<<<<"a">>>>)}),
        b \in RepoArgs(OrgLists, {Null, Some(<<<<"a">>>>)}),
        u \in BOOLEAN }
    \cup
    { [op |-> "keyInput", kind |-> "repos",
       a |-> [organizations |-> <<OrgB>>, tokens |-> pair[1]],
       b |-> [organizations |-> <<OrgB>>, tokens |-> pair[2]],
       includeCurrentUser |-> FALSE] :
        pair \in {p \in TokenInputs \X BareTokenInputs :
                    Range(Cores(p[1])) = Range(Cores(p[2]))} }

MaxFilters == 3  \* properties of a filter options object

\* filters of a pull-request search, as <<name, value>> properties
PrFilters ==
    { <<<<"s", "t", "a", "t", "e", "s">>, Arr(<<StateOpen, StateMerged>>)>>,
      <<<<"a", "u", "t", "h", "o", "r">>, Str(<<"a", "l">>)>>,
      <<<<"a", "u", "t", "h", "o", "r">>, Str(<<"b">>)>>,
      <<<<"s", "o", "r", "t">>, Undefined>>,
      <<<<"m", "a", "x", "R", "e", "s", "u", "l", "t", "s">>, Num(10)>> }

\* options objects: each name at most once, in any insertion order
PrOptionObjects ==
    {options \in UNION {[1..n -> PrFilters] : n \in 0..MaxFilters} :
        \A i, j \in 1..Len(options) :
            i # j => options[i][1] # options[j][1]}

PrKeyInputs ==
    { [op |-> "keyInput", kind |-> "prs", owner |-> <<"o">>, repo |-> <<"r">>,
       a |-> a, b |-> b] : a, b \in PrOptionObjects }

KeyInputs == RepoKeyInputs \cup PrKeyInputs

InitKeys ==
    /\ cachedToken = NullValue
    /\ execSyncCalls = 0
    /\ now = 0
    /\ cacheConfig = [repoTtl |-> DEFAULT_REPO_TTL, prTtl |-> DEFAULT_PR_TTL]
    /\ files = << >>
    /\ calls = [c \in Callers |-> IdleCall]
    /\ rq = IdleRq
    /\ ret \in KeyInputs

\* generateRepoSearchCacheKey is applied to both argument lists
GenerateRepoSearchCacheKey ==
    /\ ret.op = "keyInput"
    /\ ret.kind = "repos"
    /\ ret' = [op |-> "keys", kind |-> "repos", a |-> ret.a, b |-> ret.b,
               includeCurrentUser |-> ret.includeCurrentUser,
               keyA |-> generateRepoSearchCacheKey(
                            ret.a.organizations, KeywordsOf(ret.a.tokens),
                            ret.includeCurrentUser),
               keyB |-> generateRepoSearchCacheKey(
                            ret.b.organizations, KeywordsOf(ret.b.tokens),
                            ret.includeCurrentUser)]
    /\ UNCHANGED <<now, cacheConfig, files, calls, rq>>
    /\ UNCHANGED <<cachedToken, execSyncCalls>>

\* generatePRSearchCacheKey is applied to both options objects
GeneratePRSearchCacheKey ==
    /\ ret.op = "keyInput"
    /\ ret.kind = "prs"
    /\ ret' = [op |-> "keys", kind |-> "prs", owner |-> ret.owner,
               repo |-> ret.repo, a |-> ret.a, b |-> ret.b,
               keyA |-> generatePRSearchCacheKey(ret.owner, ret.repo, ret.a),
               keyB |-> generatePRSearchCacheKey(ret.owner, ret.repo, ret.b)]
    /\ UNCHANGED <<now, cacheConfig, files, calls, rq>>
    /\ UNCHANGED <<cachedToken, execSyncCalls>>

NextKeys ==
    \/ GenerateRepoSearchCacheKey
    \/ GeneratePRSearchCacheKey

SpecKeys == InitKeys /\ [][NextKeys]_vars

------------------------------------------------------------------------------
(* The query builder applied to bounded options objects.  ret holds the      *)
(* options, then the options and the query built from them.                  *)

MaxStates == 2   \* states in a states list

StateNames == {StateOpen, StateClosed, StateMerged, StateDraft, StateAll}

StateLists == UNION {[1..n -> StateNames] : n \in 0..MaxStates}

QueryOptions ==
    [owner : {<<"o">>}, repo : {<<"r">>},
     states : {Undefined} \cup {Arr(l) : l \in StateLists},
     author : {Undefined, Str(<<>>), Str(<<"a", "l">>)},
     assignee : {Undefined, Str(<<"b", "o">>)},
     labels : {Undefined, Arr(<<>>), Arr(<<<<"b", "u", "g">>>>),
               Arr(<<<<"z">>, <<"a", " ", "b">>>>)},
     dateFrom : {Undefined, Str(<<"1">>)},
     dateTo : {Undefined, Str(<<"2">>)},
     query : {Undefined, Str(<<"f", "i", "x">>)}]

InitQuery ==
    /\ cachedToken = NullValue
    /\ execSyncCalls = 0
    /\ now = 0
    /\ cacheConfig = [repoTtl |-> DEFAULT_REPO_TTL, prTtl |-> DEFAULT_PR_TTL]
    /\ files = << >>
    /\ calls = [c \in Callers |-> IdleCall]
    /\ rq = IdleRq
    /\ \E options \in QueryOptions :
            ret = [op |-> "queryInput", options |-> options]

BuildSearchQuery ==
    /\ ret.op = "queryInput"
    /\ ret' = [op |-> "buildSearchQuery", options |-> ret.options,
               query |-> buildSearchQuery(ret.options)]
    /\ UNCHANGED <<now, cacheConfig, files, calls, rq>>
    /\ UNCHANGED <<cachedToken, execSyncCalls>>

NextQuery == BuildSearchQuery

SpecQuery == InitQuery /\ [][NextQuery]_vars

------------------------------------------------------------------------------
(* fetchPullRequestsFromGitHub (pull-requests/search.ts lines 81-118) run on
   its own, over the result caps and the sort and order words a caller may
   pass *)

MaxResultsValues ==
    {Undefined, Num(-1), Num(0), Num(1), Num(50), Num(100), Num(150)}

SortValues ==
    {Undefined, Str(<<"c", "r", "e", "a", "t", "e", "d">>),
     Str(<<"u", "p", "d", "a", "t", "e", "d">>),
     Str(<<"c", "o", "m", "m", "e", "n", "t", "s">>)}

OrderValues ==
    {Undefined, Str(<<"a", "s", "c">>), Str(<<"d", "e", "s", "c">>),
     Str(<<"A", "S", "C">>)}

FetchOptions ==
    [owner : {<<"o">>}, repo : {<<"r">>},
     states : {Arr(<<StateOpen>>)},
     sort : SortValues, order : OrderValues,
     author : {Undefined}, assignee : {Undefined}, labels : {Undefined},
     reviewStatus : {Undefined}, query : {Undefined},
     dateFrom : {Undefined}, dateTo : {Undefined},
     maxResults : MaxResultsValues,
     useCache : {FALSE}, cacheTtl : {Undefined}]

InitFetch ==
    /\ cachedToken = NullValue
    /\ execSyncCalls = 0
    /\ now = 0
    /\ cacheConfig = [repoTtl |-> DEFAULT_REPO_TTL, prTtl |-> DEFAULT_PR_TTL]
    /\ files = << >>
    /\ calls = [c \in Callers |-> IdleCall]
    /\ rq = IdleRq
    /\ \E options \in FetchOptions :
            ret = [op |-> "fetchInput", options |-> options,
                   requests |-> << >>]

\* lines 88-107: the client is created, the query and the parameters are
\* built and the one request is sent
FetchPullRequestsFromGitHub ==
    /\ ret.op = "fetchInput"
    /\ ret' = [op |-> "issuesAndPullRequests", options |-> ret.options,
               requests |-> Append(ret.requests, SearchParams(ret.options))]
    /\ UNCHANGED <<now, cacheConfig, files, calls, rq>>
    /\ UNCHANGED <<cachedToken, execSyncCalls>>

\* lines 109-117: the answer is returned as it came, or the rejection is
\* passed on; no further request is made
FetchAnswered ==
    /\ ret.op = "issuesAndPullRequests"
    /\ \E answered \in BOOLEAN :
            ret' = [op |-> IF answered THEN "fetched" ELSE "fetchRejected",
                    options |-> ret.options, requests |-> ret.requests]
    /\ UNCHANGED <<now, cacheConfig, files, calls, rq>>
    /\ UNCHANGED <<cachedToken, execSyncCalls>>

NextFetch ==
    \/ FetchPullRequestsFromGitHub
    \/ FetchAnswered

SpecFetch == InitFetch /\ [][NextFetch]_vars

------------------------------------------------------------------------------
(* Claims about the key derivation, checked under SpecKeys *)

RepoKeys == ret.op = "keys" /\ ret.kind = "repos"

\* C11: generateRepoSearchCacheKey returns the same key for every permutation
\* of the organization list and of the keyword tokens, whatever the blanks
\* around the tokens and the empty tokens; omitted, undefined and empty
\* keywords give equal keys; different organization sets give different keys.
C11_KeyOrderIndependent ==
    RepoKeys =>
        /\ (/\ SameBag(ret.a.organizations, ret.b.organizations)
            /\ SameBag(Cores(ret.a.tokens), Cores(ret.b.tokens)))
           => ret.keyA = ret.keyB
        /\ Range(ret.a.organizations) # Range(ret.b.organizations)
           => ret.keyA # ret.keyB

C11_Witness ==
    /\ RepoKeys
    /\ ret.a.tokens = Some(<<<<" ", "a", " ">>, <<" ">>, <<"b">>>>)
    /\ ret.b.tokens = Some(<<<<"b">>, <<"a">>>>)
    /\ ret.keyA = ret.keyB

\* C12: duplicates do not change the key: argument lists with the same set
\* of organizations and the same set of keyword tokens, whatever the number
\* of times each is repeated, give the same key.
C12_DuplicatesIgnored ==
    (/\ RepoKeys
     /\ Range(ret.a.organizations) = Range(ret.b.organizations)
     /\ Range(Cores(ret.a.tokens)) = Range(Cores(ret.b.tokens)))
    => ret.keyA = ret.keyB

PrKeys == ret.op = "keys" /\ ret.kind = "prs"

\* C13: generatePRSearchCacheKey returns the same key for the same filters
\* whatever the order in which they were inserted into the options object.
C13_FilterOrderIndependent ==
    (PrKeys /\ Range(ret.a) = Range(ret.b)) => ret.keyA = ret.keyB

C13_Witness ==
    /\ PrKeys
    /\ Len(ret.a) = 3
    /\ Range(ret.a) = Range(ret.b)
    /\ ret.a[1] = ret.b[3]
    /\ ret.keyA = ret.keyB

------------------------------------------------------------------------------
(* Claims about the stored TTL, checked under SpecConfigured *)

\* the TTL the settings hold for the family of each key of Keys
FamilyTtl(key) ==
    CASE key = KeyRepos -> cacheConfig.repoTtl
      [] key = KeyPrs -> cacheConfig.prTtl
      [] key = KeyOther -> cacheConfig.repoTtl
      [] key = KeyCollide -> cacheConfig.repoTtl

\* a step of setCache called directly that wrote its entry
SetCacheWrote ==
    /\ ret = NoRet
    /\ ret'.op = "setCache"
    /\ ~ret'.threw

\* the step of getFromCacheOrFetch that chooses ttlToUse (line 157), and the
\* step that writes the entry
GcfChoosesTtl(c) == calls[c].pc = "fetch" /\ calls'[c].pc = "mkdir"

GcfWrote(c) == calls[c].pc = "write" /\ calls'[c].pc = "done"

StoredTtl(key) == files'[getCacheFilePath(key)].ttl

C16_OverrideStored ==
    [][ /\ (SetCacheWrote /\ ret'.customTtl # Undefined)
            => StoredTtl(ret'.key) = ret'.customTtl.v
        /\ \A c \in Callers :
            (GcfChoosesTtl(c) /\ calls[c].customTtl # Undefined)
                => calls'[c].ttlToUse = calls[c].customTtl.v ]_vars

------------------------------------------------------------------------------
(* Claims about removal, checked under Spec *)

\* a step of removeCacheEntry(key) called directly
Removed(key) ==
    /\ ret = NoRet
    /\ ret'.op = "removeCacheEntry"
    /\ ret'.key = key

\* a step that writes the entry of the key: setCache called directly, or the
\* write of getFromCacheOrFetch
WriteTo(key) ==
    \/ SetCacheWrote /\ ret'.key = key
    \/ \E c \in Callers : GcfWrote(c) /\ calls[c].key = key

\* C17: removeCacheEntry(key) returns true if and only if an entry for the key
\* existed and was deleted; after it returned true the key has no entry
\* (getCache returns null) until the next write to that key; the entries of
\* the other keys are unchanged by it.
C17_RemoveOnlyThatKey ==
    [][ \A key \in Keys :
            /\ Removed(key) =>
                /\ ret'.value <=> /\ getCacheFilePath(key) \in DOMAIN files
                                  /\ getCacheFilePath(key) \notin DOMAIN files'
                /\ ret'.value => getCache(key, now)' = Null
                /\ \A other \in Keys \ {key} :
                        getCache(other, now)' = getCache(other, now)
            /\ (getCache(key, now) = Null /\ getCache(key, now)' # Null)
                => WriteTo(key) ]_vars

\* a step of clearAllCache
Cleared == ret = NoRet /\ ret'.op = "clearAllCache"

\* the entries fs.readdir enumerated
Enumerated == IF ret'.readdir THEN DOMAIN files ELSE {}

\* C18 as stated: clearAllCache runs to completion whatever fails, removed +
\* errors equals the number of entries enumerated, and after a run with
\* errors = 0 getCache returns null for every key (removed is the number of
\* entries that were stored).
C18_CountsAddUp ==
    [][ Cleared =>
            /\ ret'.removed + ret'.errors = Cardinality(Enumerated)
            /\ ret'.errors = 0 =>
                /\ \A key \in Keys : getCache(key, now)' = Null
                /\ ret'.removed = Cardinality(DOMAIN files) ]_vars

\* C18: clearAllCache runs to completion whatever fails.  When the directory
\* was enumerated, every enumerated entry is either removed or counted as an
\* error (removed + errors is their number, and the entries left are the
\* errors); when the enumeration itself fails nothing is removed and one
\* error is reported.  After a run with errors = 0 getCache returns null for
\* every key and removed is the number of entries that were stored.
C18_CountsAddUpWhenEnumerated ==
    [][ Cleared =>
            /\ ret'.readdir =>
                /\ ret'.removed + ret'.errors = Cardinality(DOMAIN files)
                /\ Cardinality(DOMAIN files') = ret'.errors
                /\ DOMAIN files' \subseteq DOMAIN files
            /\ ~ret'.readdir =>
                /\ ret'.removed = 0 /\ ret'.errors = 1
                /\ files' = files
            /\ ret'.errors = 0 =>
                /\ \A key \in Keys : getCache(key, now)' = Null
                /\ ret'.removed = Cardinality(DOMAIN files) ]_vars

\* two entries removed and one removal failed
C18_Witness ==
    /\ ret.op = "clearAllCache"
    /\ ret.readdir
    /\ ret.removed = 2
    /\ ret.errors = 1
    /\ Cardinality(DOMAIN files) = 1

------------------------------------------------------------------------------
(* Claims about failing reads, checked under SpecReads *)

\* the key has no entry that can be read: no file, a file fs.readFile fails
\* on, or a file JSON.parse rejects
NoReadableEntry(key) ==
    \/ getCacheFilePath(key) \notin DOMAIN files
    \/ files[getCacheFilePath(key)] \in {Corrupt, Unreadable}

\* C19: getCache and isCacheValid report a missing entry, an I/O error and an
\* unparsable entry as absent (getCache returns null, isCacheValid returns
\* false) instead of raising, and getFromCacheOrFetch treats each of them as
\* a cache miss: it invokes the fetch function.
C19_ReadFailureIsAbsent ==
    [][ /\ (ret = NoRet /\ ret'.op = "getCache" /\ NoReadableEntry(ret'.key))
            => ret'.value = Null
        /\ (ret = NoRet /\ ret'.op = "isCacheValid" /\ NoReadableEntry(ret'.key))
            => ret'.value = FALSE
        /\ \A c \in Callers :
            (/\ calls[c].pc = "idle"
             /\ calls'[c].pc # "idle"
             /\ NoReadableEntry(calls'[c].key))
            => /\ calls'[c].pc = "fetch"
               /\ calls'[c].fetchCalls = 1 ]_vars

C19_Witness ==
    /\ ret.op = "getCache"
    /\ getCacheFilePath(ret.key) \in DOMAIN files
    /\ files[getCacheFilePath(ret.key)] = Unreadable
    /\ ret.value = Null

------------------------------------------------------------------------------
(* Claims about the keys and the cache use of the searches, checked under   *)
(* SpecSearch                                                               *)

\* String.prototype.includes
Contains(s, sub) ==
    \E i \in 1..(Len(s) - Len(sub) + 1) : SubSeq(s, i, i + Len(sub) - 1) = sub

\* the key searchPullRequests handed to getFromCacheOrFetch
PrSearchKeyed ==
    /\ rq.kind = "prs"
    /\ rq.options.useCache
    /\ calls[1].key # <<>>

OmittedFilters(options) ==
    {filter \in Range(PrKeyOptions(options)) : filter[2] = Undefined}

\* C14: a filter that is omitted from a pull-request search contributes
\* nothing to the key searchPullRequests builds: its name is followed by no
\* 'undefined' placeholder and by no empty value, it is absent.
C14_OmittedFilterAbsent ==
    PrSearchKeyed =>
        \A filter \in OmittedFilters(rq.options) :
            ~Contains(calls[1].key, filter[1] \o <<":">>)

\* the search in progress was requested with useCache = false
Uncached(r) == r.kind # "none" /\ ~r.options.useCache

------------------------------------------------------------------------------
(* Claims about the scopes of a repository search, checked under SpecSearch *)

\* a repository search is in progress or has returned
RepoSearch == rq.kind = "repos"

\* the pagination of a logged scope followed the rules of the page loop: at
\* most maxPages requests, and fewer only after a failure, a short page or a
\* reached cap
Paginated(entry, options) ==
    LET maxPages == IF options.maxPages = 0 THEN 10 ELSE options.maxPages
    IN  /\ entry.requests \in 1..maxPages
        /\ (~entry.failed /\ entry.requests < maxPages)
            => \/ entry.fetched < entry.requests * 100
               \/ options.maxResults # 0 /\ entry.fetched >= options.maxResults

\* C21: with includeCurrentUser set, searchRepositories queries exactly one
\* more scope, with the query 'user:@me' and no keyword clause whatever the
\* keywords, after all organization scopes and under the pagination rules of
\* every scope; without the flag no request is made for the user scope.
C21_UserScopeLast ==
    RepoSearch =>
        LET n == Len(rq.options.organizations)
        IN  /\ \A k \in 1..Len(rq.scopeLog) :
                /\ rq.scopeLog[k].i = k
                /\ k <= n + 1
                /\ rq.scopeLog[k].q = <<"u", "s", "e", "r", ":", "@", "m", "e">>
                    <=> k = n + 1
                /\ k = n + 1 =>
                    /\ rq.options.includeCurrentUser
                    /\ Paginated(rq.scopeLog[k], rq.options)
            /\ rq.pc = "page" =>
                /\ rq.i = Len(rq.scopeLog) + 1
                /\ rq.i <= n + 1
                /\ rq.query = <<"u", "s", "e", "r", ":", "@", "m", "e">>
                    <=> rq.i = n + 1
                /\ rq.i = n + 1 => rq.options.includeCurrentUser
            /\ FreshRepoResult => Len(rq.scopeLog) = ScopeCount(rq.options)

\* the user scope alone was queried, over two pages, with keywords configured
C21_Witness ==
    /\ FreshRepoResult
    /\ rq.options.keywords # <<>>
    /\ Len(rq.scopeLog) = 1
    /\ rq.scopeLog[1].q = UserQuery
    /\ rq.scopeLog[1].requests = 2

\* C22: a repository search that supplies no organizations is reported as a
\* failure (never success = TRUE with an empty item list), and nothing is
\* fetched or cached for it.
C22_NoOrganizationsIsFailure ==
    (RepoSearch /\ rq.options.organizations = <<>>) =>
        /\ rq.pc \notin {"client", "page"}
        /\ rq.pc = "returned" => ~rq.result.success
        /\ files = << >>

------------------------------------------------------------------------------
(* Claims about the credentials, checked under SpecAuth *)

\* C23: while a token is cached, getGitHubToken returns that token without
\* running the credential CLI, and only clearGitHubTokenCache empties the
\* cache; with no token cached the call runs the CLI once and returns what it
\* yields, caching it when the acquisition succeeded and caching nothing when
\* it failed or was empty.
C23_TokenCachedUntilCleared ==
    [][/\ ret'.op = "getGitHubToken" =>
            IF cachedToken # NullValue
            THEN /\ ret'.result = AuthSuccess(cachedToken.v)
                 /\ UNCHANGED <<cachedToken, execSyncCalls>>
            ELSE /\ execSyncCalls' = execSyncCalls + 1
                 /\ IF ret'.result.success
                    THEN /\ cachedToken' = Str(ret'.result.token)
                         /\ ret'.result.token # <<>>
                    ELSE cachedToken' = NullValue
       /\ (cachedToken # NullValue /\ cachedToken' # cachedToken) =>
            /\ ret'.op = "clearGitHubTokenCache"
            /\ cachedToken' = NullValue
       /\ ret'.op = "clearGitHubTokenCache" => cachedToken' = NullValue
      ]_vars

\* a second token was acquired by the second run of the CLI, which only
\* happens after the first was cleared or the first acquisition failed
C23_Witness ==
    /\ ret = [op |-> "getGitHubToken", result |-> AuthSuccess(<<"b">>)]
    /\ cachedToken = Str(<<"b">>)
    /\ execSyncCalls = 2

------------------------------------------------------------------------------
(* Claims about the configured TTL, checked under SpecConfigured *)

\* C24: after configureCacheSettings({ cacheDir, ttl: X }) the default TTL is
\* X: the TTL an entry written without an override is stored with, which is
\* getDefaultTtlForKey(key), is X for every key.
C24_ConfiguredTtlIsDefault ==
    [][(ret'.op = "configureCacheSettings" /\ ret'.options.ttl # 0) =>
            \A key \in Keys : getDefaultTtlForKey(key)' = ret'.options.ttl
      ]_vars

------------------------------------------------------------------------------
(* Claims about the page loop of a scope, checked under SpecSearch *)

\* the scope of the outstanding page request goes on with another request
SameScope == rq'.pc = "page" /\ rq'.i = rq.i

\* C25: within one scope the pages are requested consecutively from page 1;
\* after a page the next one is requested unless the page held fewer than 100
\* items, its number is maxPages (10 when not configured) or the accumulated
\* items reached the configured maxResults, and after such a page (or a
\* failed one) the scope's loop ends with no further request.
C25_PageLoopStops ==
    [][RepoSearch' =>
        LET maxPages == IF rq.options.maxPages = 0 THEN 10
                        ELSE rq.options.maxPages
            maxResults == rq.options.maxResults
        IN  /\ (rq'.pc = "page" /\ ~(rq.pc = "page" /\ SameScope)) =>
                    rq'.page = 1
            /\ (rq.pc = "page" /\ SameScope) =>
                    /\ rq'.page = rq.page + 1
                    /\ Len(rq'.repos) - Len(rq.repos) = 100
                    /\ rq.page # maxPages
                    /\ ~(maxResults # 0 /\ Len(rq'.repos) >= maxResults)
            /\ (rq.pc = "page" /\ ~SameScope) =>
                    LET entry == rq'.scopeLog[Len(rq'.scopeLog)]
                    IN  /\ Len(rq'.scopeLog) = Len(rq.scopeLog) + 1
                        /\ entry.i = rq.i /\ entry.requests = rq.page
                        /\ \/ entry.failed
                           \/ entry.fetched - Len(rq.repos) < 100
                           \/ rq.page = maxPages
                           \/ maxResults # 0 /\ entry.fetched >= maxResults
      ]_vars

\* a scope stopped at its second page by maxPages = 2, both pages full
C25_Witness ==
    /\ RepoSearch /\ rq.options.maxPages = 2 /\ rq.options.maxResults = 0
    /\ \E k \in 1..Len(rq.scopeLog) :
            /\ ~rq.scopeLog[k].failed
            /\ rq.scopeLog[k].requests = 2
            /\ rq.scopeLog[k].fetched = 200

\* C26 as stated: a scope in which a page request fails contributes zero
\* items, whichever page fails.
C26_FailedScopeContributesNothing ==
    RepoSearch =>
        \A k \in 1..Len(rq.scopeLog) :
            rq.scopeLog[k].failed => rq.scopeLog[k].returned = 0

\* C26 amended: a scope in which a page request fails contributes the items
\* of the pages fetched before the failed one and nothing else (zero items
\* when the first page fails), and the search goes on with the next scope.
C26_FailedScopeKeepsEarlierPages ==
    RepoSearch =>
        \A k \in 1..Len(rq.scopeLog) :
            rq.scopeLog[k].failed =>
                /\ rq.scopeLog[k].returned = (rq.scopeLog[k].requests - 1) * 100
                /\ \A j \in 1..rq.scopeLog[k].returned :
                        ScopeItems(rq, k)[j].rec = RecOf(k, (j - 1) \div 100 + 1)
                /\ k < ScopeCount(rq.options) =>
                        \/ Len(rq.scopeLog) > k
                        \/ rq.pc = "page" /\ rq.i = k + 1

\* the second page of the first scope failed after a full first page, and
\* the second scope was searched
C26_Witness ==
    /\ RepoSearch /\ Len(rq.scopeLog) = 2
    /\ rq.scopeLog[1].failed /\ rq.scopeLog[1].requests = 2
    /\ rq.scopeLog[1].returned = 100

\* C27: the requests of a repository search are issued scope by scope in the
\* order of the organizations as the caller passed them (then the user
\* scope), with the cache enabled or disabled, and never interleaved: the
\* k-th scope searched is the caller's k-th organization, and a request is
\* outstanding for scope k only when the scopes 1..k-1 are complete.
C27_ScopesInInputOrder ==
    RepoSearch =>
        LET input == rq.target.organizations
            Asks(q, k) == k <= Len(input) =>
                            q = OrgQuery(input[k], rq.options.keywords)
        IN  /\ \A k \in 1..Len(rq.scopeLog) :
                    rq.scopeLog[k].i = k /\ Asks(rq.scopeLog[k].q, k)
            /\ rq.pc = "page" =>
                    rq.i = Len(rq.scopeLog) + 1 /\ Asks(rq.query, rq.i)

------------------------------------------------------------------------------
(* Claims about termination, checked under SpecSearchFair *)

\* C28: every search call ends with a result, successful or failed, after
\* finitely many requests when each request returns or fails: a scope makes
\* at most maxPages page requests (10 when not configured), the fetch is run
\* at most twice, and a call that was started always reaches its result.
C28_SearchTerminates ==
    /\ [](rq.kind = "repos" =>
            /\ rq.run <= 2
            /\ rq.page <= (IF rq.options.maxPages = 0 THEN 10
                           ELSE rq.options.maxPages)
            /\ \A k \in 1..Len(rq.scopeLog) :
                    rq.scopeLog[k].requests
                        <= (IF rq.options.maxPages = 0 THEN 10
                            ELSE rq.options.maxPages))
    /\ [](rq.kind = "prs" => rq.run <= 2)
    /\ InFlight ~> (rq.pc = "returned")

\* a search whose fetch was run a second time delivered its result
C28_Witness ==
    /\ rq.pc = "returned" /\ rq.run = 2
    /\ rq.result.success

------------------------------------------------------------------------------
(* Claims about overlapping calls, checked under SpecOverlap *)

\* C29: calls of getFromCacheOrFetch that overlap are not coordinated.  A
\* call that misses invokes its own fetch, also while another call for the
\* same key is in flight; when its write succeeds it has invoked the fetch
\* once, the entry of the key is the one it wrote (so the later write is the
\* one left) and it receives the data of its own fetch with cached = FALSE;
\* the other call is not touched.
C29_OverlappingMisses ==
    [][\A c \in Callers :
        /\ (calls[c].pc = "idle" /\ calls'[c].pc # "idle") =>
                IF getCache(calls'[c].key, now) = Null
                THEN calls'[c].pc = "fetch" /\ calls'[c].fetchCalls = 1
                ELSE calls'[c].pc = "done" /\ calls'[c].result.cached
        /\ (calls[c].pc = "write" /\ calls'[c].pc = "done") =>
                /\ calls'[c].fetchCalls = 1
                /\ calls'[c].result =
                        [data |-> calls[c].freshData.data, cached |-> FALSE]
                /\ files'[getCacheFilePath(calls[c].key)] = calls[c].entry
                /\ calls[c].entry.data = calls[c].freshData.data
                /\ \A o \in Callers \ {c} : calls'[o] = calls[o]
      ]_vars

\* both callers missed the same key and fetched different data; each holds
\* its own data, and the entry is the one caller 2 wrote after caller 1
C29_Witness ==
    /\ \A c \in Callers : /\ calls[c].pc = "done"
                          /\ calls[c].key = KeyRepos
                          /\ calls[c].fetchCalls = 1
    /\ calls[1].result = [data |-> "d1", cached |-> FALSE]
    /\ calls[2].result = [data |-> "d2", cached |-> FALSE]
    /\ files[getCacheFilePath(KeyRepos)].data = "d2"

------------------------------------------------------------------------------
(* Claims about the atomicity of a write, checked under Spec *)

\* C30: a cache write is atomic: a write that fails, in setCache called
\* directly or inside getFromCacheOrFetch, leaves every file as it was (the
\* previous entry of the key stays intact), and no file ever holds a partly
\* written entry.
C30_WriteIsAtomic ==
    [][/\ ((ret'.op = "setCache" /\ ret'.threw)
            \/ \E c \in Callers :
                    calls[c].pc = "write" /\ calls'[c].pc = "refetch")
          => files' = files
       /\ \A path \in DOMAIN files' : files'[path] # Corrupt
      ]_vars

------------------------------------------------------------------------------
(* Claims about what a write and a read do to the store, checked under Spec *)

\* C31: a write to a key replaces the previous entry wholesale: after the
\* write the key's file holds exactly the data, the timestamp and the ttl of
\* that write, whatever it held before, and a read of the key that finds the
\* entry unexpired returns the data just written.
C31_WriteReplaces ==
    [][\A key \in Keys :
        /\ (SetCacheWrote /\ ret'.key = key) =>
                /\ files'[getCacheFilePath(key)] =
                        CacheEntry(ret'.data, now,
                            TtlOrElse(ret'.customTtl, getDefaultTtlForKey(key)))
                /\ isCacheValid(key, now)' => getCache(key, now)'.data = ret'.data
        /\ \A c \in Callers : (GcfWrote(c) /\ calls[c].key = key) =>
                /\ files'[getCacheFilePath(key)] = calls[c].entry
                /\ calls[c].entry.data = calls[c].freshData.data
                /\ calls[c].entry.ttl = calls[c].ttlToUse
                /\ isCacheValid(key, now)' =>
                        getCache(key, now)'.data = calls[c].freshData.data
      ]_vars

\* d2 was written to the key after the clock had advanced
C31_Witness ==
    /\ ret.op = "setCache" /\ ~ret.threw /\ ret.key = KeyRepos /\ ret.data = "d2"
    /\ now > 0
    /\ files[getCacheFilePath(KeyRepos)] = CacheEntry("d2", now, DEFAULT_REPO_TTL)

\* C32: reading never deletes: getCache, isCacheValid, getCacheInfo and the
\* lookup of getFromCacheOrFetch leave every file as it is; a file changes or
\* disappears only in a write to its key, in removeCacheEntry or in
\* clearAllCache (never by the passing of time), and getCacheInfo counts
\* every file of the store, the expired ones included.
C32_ReadingNeverDeletes ==
    [][/\ (ret = NoRet /\ ret'.op \in {"getCache", "isCacheValid", "getCacheInfo"})
            => files' = files
       /\ (\E c \in Callers : calls[c].pc = "idle" /\ calls'[c].pc # "idle")
            => files' = files
       /\ files' # files =>
            \/ ret = NoRet /\ ret'.op \in {"setCache", "removeCacheEntry",
                                           "clearAllCache"}
            \/ \E c \in Callers : calls[c].pc = "write"
       /\ (ret = NoRet /\ ret'.op = "getCacheInfo" /\ ret'.readdir)
            => ret'.files = Cardinality(DOMAIN files')
      ]_vars

\* getCache answered null for an entry that has expired, and the entry is
\* still in the store
C32_Witness ==
    /\ ret.op = "getCache" /\ ret.key = KeyRepos /\ ret.value = Null
    /\ getCacheFilePath(KeyRepos) \in DOMAIN files
    /\ Parses(getCacheFilePath(KeyRepos))
    /\ ~isCacheValid(KeyRepos, now)

------------------------------------------------------------------------------
(* Claims about the query of a pull-request search, checked under SpecQuery *)

QueryBuilt == ret.op = "buildSearchQuery"

\* 'repo:<owner>/<repo> is:pr'
ScopeClauses(options) ==
    <<"r", "e", "p", "o", ":">> \o options.owner \o <<"/">> \o options.repo
        \o <<" ", "i", "s", ":", "p", "r">>

\* the states a list names, each once
StatesGiven(options) ==
    IF options.states = Undefined THEN {}
    ELSE {options.states.v[i] : i \in 1..Len(options.states.v)}

\* 'is:a OR is:b ...' for the states in the order given by the sequence
RECURSIVE OrGroup(_)
OrGroup(names) ==
    IF names = <<>> THEN <<>>
    ELSE <<"i", "s", ":">> \o Head(names)
            \o (IF Len(names) > 1 THEN <<" ", "O", "R", " ">> ELSE <<>>)
            \o OrGroup(Tail(names))

\* the renderings of the state filter the claim allows: none, a bare
\* clause, or a parenthesized group of the states in some order
StateClauses(options) ==
    LET given == StatesGiven(options)
    IN  IF given = {} \/ StateAll \in given THEN {<<>>}
        ELSE IF Cardinality(given) = 1
        THEN {<<" ">> \o OrGroup(<<s>>) : s \in given}
        ELSE {<<" ", "(">> \o OrGroup(order) \o <<")">> :
                order \in {o \in [1..Cardinality(given) -> given] :
                            \A i, j \in 1..Cardinality(given) :
                                i # j => o[i] # o[j]}}

\* C33: after 'repo:<owner>/<repo> is:pr' the query continues with the state
\* filter: a parenthesized ' OR '-joined group of 'is:<state>' clauses when
\* more than one state is given, one bare 'is:<state>' when exactly one is
\* given, and nothing (the next filter or the end follows) when the list is
\* absent, empty or contains 'all', alone or with other states.  States
\* given twice count once.
C33_StateClause ==
    QueryBuilt =>
        \E clause \in StateClauses(ret.options) :
            LET head == ScopeClauses(ret.options) \o clause
                rest == SubSeq(ret.query, Len(head) + 1, Len(ret.query))
            IN  /\ StartsWith(ret.query, head)
                /\ rest # <<>> =>
                        /\ rest[1] = " "
                        /\ ~StartsWith(rest, <<" ", "i", "s", ":">>)
                        /\ ~StartsWith(rest, <<" ", "(">>)
                        /\ ~StartsWith(rest, <<" ", "O", "R">>)

\* 'all' was given together with 'open', and no state clause was rendered
C33_Witness ==
    /\ QueryBuilt
    /\ ret.options.states = Arr(<<StateOpen, StateAll>>)
    /\ ret.options.author = Str(<<"a", "l">>)
    /\ StartsWith(ret.query, <<"r", "e", "p", "o", ":", "o", "/", "r", " ",
                               "i", "s", ":", "p", "r", " ", "a", "u">>)

\* the clause of a filter that is present (absent: undefined or empty)
Clause(prefix, value) ==
    IF value = Undefined \/ value.v = <<>> THEN <<>>
    ELSE <<" ">> \o prefix \o value.v

\* one clause per label, in the order of the list
RECURSIVE LabelClauses(_)
LabelClauses(queries) ==
    IF queries = <<>> THEN <<>>
    ELSE <<" ">> \o Head(queries) \o LabelClauses(Tail(queries))

\* C34: the query is the clauses of the filters that are present, in the
\* order repo scope, 'is:pr', state clause, author, assignee, the labels in
\* input order, created-from, created-to, free text, each separated from the
\* one before it by a single space; an absent filter leaves no clause.
C34_ClauseOrder ==
    QueryBuilt =>
        LET o == ret.options
        IN  \E state \in StateClauses(o) :
                ret.query =
                    ScopeClauses(o)
                    \o state
                    \o Clause(<<"a", "u", "t", "h", "o", "r", ":">>, o.author)
                    \o Clause(<<"a", "s", "s", "i", "g", "n", "e", "e", ":">>,
                              o.assignee)
                    \o (IF o.labels = Undefined THEN <<>>
                        ELSE LabelClauses(LabelQueries(o.labels.v)))
                    \o Clause(<<"c", "r", "e", "a", "t", "e", "d", ":", ">", "=">>,
                              o.dateFrom)
                    \o Clause(<<"c", "r", "e", "a", "t", "e", "d", ":", "<", "=">>,
                              o.dateTo)
                    \o Clause(<<>>, o.query)

\* every filter is present; two states and two labels were given
C34_Witness ==
    /\ QueryBuilt
    /\ ret.options.states = Arr(<<StateMerged, StateOpen>>)
    /\ ret.options.labels = Arr(<<<<"z">>, <<"a", " ", "b">>>>)
    /\ \A f \in {"author", "assignee", "dateFrom", "dateTo", "query"} :
            ret.options[f] # Undefined /\ ret.options[f].v # <<>>
    /\ Len(ret.query) > 60

------------------------------------------------------------------------------
(* Claims about the request of a pull-request fetch, checked under
   SpecFetch *)

\* C35: a pull-request fetch issues exactly one remote request; its per_page
\* is min(maxResults, 100), 100 when maxResults is not given; its sort is
\* 'created' only if the caller asked for 'created' and 'updated' otherwise;
\* its order is 'asc' only if the caller asked for 'asc' and 'desc' otherwise;
\* per_page is always between 1 and 100.
C35_OneRequestCappedPerPage ==
    ret.op \in {"fetched", "fetchRejected"} =>
        /\ Len(ret.requests) = 1
        /\ LET params == ret.requests[1]
               options == ret.options
           IN  /\ params.per_page =
                    IF Truthy(options.maxResults)
                    THEN Min(options.maxResults.v, 100) ELSE 100
               /\ params.sort =
                    IF options.sort = Str(<<"c", "r", "e", "a", "t", "e", "d">>)
                    THEN "created" ELSE "updated"
               /\ params.order =
                    IF options.order = Str(<<"a", "s", "c">>)
                    THEN "asc" ELSE "desc"
               /\ params.per_page \in 1..100

------------------------------------------------------------------------------
(* Claims about the entries of different keys, checked under Spec *)

\* C36: distinct cache keys address distinct stored entries: a write under one
\* key never changes what getCache returns for a different key.
C36_DistinctKeysDistinctEntries ==
    [][\A key \in Keys :
            WriteTo(key) =>
                \A other \in Keys \ {key} :
                    getCache(other, now)' = getCache(other, now)]_vars

------------------------------------------------------------------------------
(* Claims about the arguments and the entries of a repository search, checked
   under SpecSearch *)

\* C37: the derivation of the cache key has no side effect on its inputs:
\* during and after a searchRepositories call the organizations list of the
\* caller's options holds the same elements in the same order as the caller
\* passed them.
C37_KeyDerivationLeavesInputs ==
    RepoSearch => rq.options.organizations = rq.target.organizations

\* C38: a repository-search result served from the cache was produced under
\* the caps of the request it is served to: requests that differ in
\* maxResults or maxPages never share an entry, so a cache hit never returns
\* more items than the maxResults of the request.
C38_CachedUnderSameCaps ==
    (/\ RepoSearch
     /\ rq.pc = "returned"
     /\ rq.result.success
     /\ rq.result.cached
     /\ rq.options.maxResults > 0)
    => Len(rq.result.items) <= rq.options.maxResults

------------------------------------------------------------------------------
(* Claims about a fetch function that fails, checked under Spec *)

\* the fetch function of call c rejected in this step
FetchFnRejected(c) ==
    \/ calls[c].pc = "fetch" /\ calls'[c].pc = "refetch"
    \/ calls[c].pc = "refetch" /\ calls'[c].pc = "failed"

------------------------------------------------------------------------------
(* Claims about what a repository search stores, checked under SpecSearch *)

\* C40: searchRepositories writes a result to the cache only when the page
\* requests of every scope completed without error: a result reduced by the
\* failure of a scope is never stored.
C40_DegradedResultNotStored ==
    [][(RepoSearch /\ GcfWrote(1) /\ files' # files) =>
            \A k \in 1..Len(rq.scopeLog) : ~rq.scopeLog[k].failed]_vars
====
